---- MODULE Spec2Model ----
(***************************************************************************)
(* A model of the asset indexing and retrieval engine of opencut:          *)
(*   - VideoHasher and FingerprintDB  (opencut/indexer/fingerprint.py)     *)
(*   - SemanticIndex                  (opencut/indexer/semantic.py)        *)
(* Hashes are hexadecimal strings, modelled as sequences of digits 0..15.  *)
(* Times are whole seconds.  An embedding is a short integer vector and a  *)
(* similarity score is the dot product of two of them.                     *)
(***************************************************************************)
EXTENDS Integers, Sequences, FiniteSets, TLC

VARIABLES
    videos,      \* table video_fingerprints, committed rows in rowid order
    frames,      \* table frame_hashes, committed rows in rowid order
    videoSeq,    \* sqlite_sequence of video_fingerprints (AUTOINCREMENT)
    latest,      \* history: file_path -> fingerprint of the last add_video that committed
    scanFiles,   \* scan_and_index: the enumerated video_files
    scanPos,     \* scan_and_index: number of loop iterations completed
    indexed,     \* scan_and_index: local counter `indexed`
    progress,    \* scan_and_index: the progress_callback calls made, in order
    scanPc,      \* scan_and_index: "idle" | "loop" | "done"
    vectors,     \* SemanticIndex.vectors: dict clip_id -> embedding, in insertion order
    metadata,    \* SemanticIndex.metadata: dict clip_id -> clip record, in insertion order
    vectorsFile, \* index_path/vectors.npy
    metadataFile, \* index_path/metadata.json
    batchFiles,  \* batch_index: video_files
    batchPos,    \* batch_index: number of loop iterations completed
    totalClips,  \* batch_index: total_clips
    batchPc,     \* batch_index: "idle" | "loop"
    batchLog,    \* batch_index: what each loop iteration of the running call did
    ret,         \* the last call of the public API and what it returned
                 \* ("running" while scan_and_index or batch_index is in its loop)
    wIndex,      \* per writer process: its SemanticIndex, [vectors, metadata]
    wBatch,      \* per writer process: batch_index locals [files, pos, total_clips]
    wProduced,   \* per writer process: the clip_ids its index_video calls returned
    wPc,         \* per writer process: "new" | "idle" | "loop" | "saving" | "done"
    createCall,  \* OpenCutPipeline.create: its position, locals and the gates consulted
    outputs      \* the files render has written under output.directory

storeVars == <<videos, frames, videoSeq, latest>>
scanVars == <<scanFiles, scanPos, indexed, progress, scanPc>>
indexVars == <<vectors, metadata>>
diskVars == <<vectorsFile, metadataFile>>
batchVars == <<batchFiles, batchPos, totalClips, batchPc, batchLog>>
semVars == <<vectors, metadata, vectorsFile, metadataFile, batchFiles, batchPos, totalClips,
            batchPc, batchLog>>
writerVars == <<wIndex, wBatch, wProduced, wPc>>
createVars == <<createCall, outputs>>
vars == <<videos, frames, videoSeq, latest, scanFiles, scanPos, indexed, progress, scanPc,
          vectors, metadata, vectorsFile, metadataFile, batchFiles, batchPos, totalClips,
          batchPc, batchLog, ret, wIndex, wBatch, wProduced, wPc, createCall, outputs>>

(***************************************************************************)
(* Bounds of the model.                                                    *)
(***************************************************************************)
MaxAdds == 3        \* add_video transactions that commit (caps AUTOINCREMENT)
MaxListLen == 2     \* length of a file_list handed to deduplicate
MaxBatch == 2       \* length of the video_files handed to batch_index
MaxTopK == 2        \* largest top_k handed to search
MaxWriterFiles == 1 \* length of the video_files of a concurrent batch_index run
MaxFacadeAdds == 2  \* fingerprints in the store the retrieval facade reads
MaxHashLen == 2     \* digits of a hash handed to hamming_distance directly
MaxClusterAdds == 4 \* add_video calls before find_duplicates clusters the store
MaxIndexed == 1     \* clips in the index when another index_video call may start
MaxFps == 2         \* largest frame rate the decoder reports, in frames per second
MaxFrames == 5      \* largest frame count the decoder reports

(***************************************************************************)
(* Inputs.                                                                 *)
(***************************************************************************)
Paths == {"a.mp4", "b.mp4", "a.mov"}
UnindexedPath == "z.mp4"                \* a file that is never fingerprinted
ListPaths == Paths \cup {UnindexedPath}

H00 == <<0, 0>>
H01 == <<0, 1>>
H03 == <<0, 3>>
HFF == <<15, 15>>
HFE == <<15, 14>>
PA == <<10, 0>>
PB == <<10, 1>>

P00 == [combined_hash |-> H00, frame_hashes |-> << >>]
P01 == [combined_hash |-> H01, frame_hashes |-> <<[timestamp |-> 0, phash |-> PA]>>]
P03 == [combined_hash |-> H03, frame_hashes |-> <<[timestamp |-> 0, phash |-> PA],
                                                  [timestamp |-> 2, phash |-> PB]>>]
PFF == [combined_hash |-> HFF, frame_hashes |-> <<[timestamp |-> 0, phash |-> PB]>>]
PFE == [combined_hash |-> HFE, frame_hashes |-> <<[timestamp |-> 0, phash |-> PB]>>]

\* A fingerprint made with a smaller hash size: one digit where the others
\* have two.  Its combined_hash has the value of H01 and its frame hash the
\* value of <<0, 15>>.
HS1 == <<1>>
HS15 == <<15>>
PS == [combined_hash |-> HS1, frame_hashes |-> <<[timestamp |-> 0, phash |-> HS15]>>]

\* What compute_video_fingerprint can return for each file, as its content
\* changes: combined_hash and the sampled frame_hashes.
Prints(path) ==
    CASE path = "a.mp4" -> {P00, P01}
      [] path = "b.mp4" -> {P01, P03}
      [] path = "a.mov" -> {P03, PFF}

Fingerprint(path, print) ==
    [video_path |-> path, combined_hash |-> print.combined_hash,
     frame_hashes |-> print.frame_hashes]

DefaultThreshold == 5
Thresholds == {0, 1, DefaultThreshold}

NoPrint == [combined_hash |-> << >>, frame_hashes |-> << >>]

RECURSIVE SeqsUpTo(_, _)
SeqsUpTo(S, n) ==
    IF n = 0 THEN {<< >>}
    ELSE LET shorter == SeqsUpTo(S, n - 1)
         IN shorter \cup {Append(s, x) : s \in shorter, x \in S}

FileLists == SeqsUpTo(ListPaths, MaxListLen)

\* Hexadecimal strings handed to hamming_distance and is_similar directly:
\* every non-empty string of up to MaxHashLen of these digits.
HexDigits == {0, 1, 15}
TestHashes == SeqsUpTo(HexDigits, MaxHashLen) \ {<< >>}

(***************************************************************************)
(* VideoHasher.hamming_distance and is_similar.                            *)
(***************************************************************************)
Inf == -1           \* float('inf'): greater than every threshold
ZFillWidth == 64

\* int(hash, 16)
RECURSIVE IntOfHex(_)
IntOfHex(h) ==
    IF Len(h) = 0 THEN 0
    ELSE 16 * IntOfHex(SubSeq(h, 1, Len(h) - 1)) + h[Len(h)]

\* bin(n)[2:]: the binary digits of n, most significant first, "0" for 0
RECURSIVE Bin(_)
Bin(n) ==
    IF n < 2 THEN <<n>> ELSE Append(Bin(n \div 2), n % 2)

\* str.zfill(width): left-padded with zeros to at least width
ZFill(s, width) ==
    IF Len(s) >= width THEN s
    ELSE [i \in 1..width |-> IF i <= width - Len(s) THEN 0 ELSE s[i - (width - Len(s))]]

Min(x, y) == IF x <= y THEN x ELSE y

\* Mutant: only bin1 is padded with zfill.
HammingOnePadded(hash1, hash2) ==
    IF Len(hash1) # Len(hash2) THEN Inf
    ELSE LET bin1 == ZFill(Bin(IntOfHex(hash1)), ZFillWidth)
             bin2 == Bin(IntOfHex(hash2))
         IN Cardinality({i \in 1..Min(Len(bin1), Len(bin2)) : bin1[i] # bin2[i]})

hamming_distance(hash1, hash2) ==
    IF Len(hash1) # Len(hash2) THEN Inf
    ELSE LET bin1 == ZFill(Bin(IntOfHex(hash1)), ZFillWidth)
             bin2 == ZFill(Bin(IntOfHex(hash2)), ZFillWidth)
         IN Cardinality({i \in 1..Min(Len(bin1), Len(bin2)) : bin1[i] # bin2[i]})

\* hamming_distance on the hashes of the model, computed once.
Hashes == {H00, H01, H03, HFF, HFE, PA, PB, HS1, HS15} \cup TestHashes
HammingTable == [h1 \in Hashes, h2 \in Hashes |-> hamming_distance(h1, h2)]

\* Mutant: the infinite value is compared like a number.
DistanceWithinNoInf(distance, threshold) == distance <= threshold

\* distance <= threshold, where distance may be float('inf')
DistanceWithin(distance, threshold) ==
    distance # Inf /\ distance <= threshold

is_similar(hash1, hash2, threshold) ==
    DistanceWithin(HammingTable[hash1, hash2], threshold)

(***************************************************************************)
(* VideoHasher.compute_video_fingerprint.                                  *)
(***************************************************************************)
\* compute_frame_phash of the frame at index idx of the file.
FramePhash(idx) == IF idx % 2 = 0 THEN PA ELSE PB

DefaultSampleInterval == 1

\* hashlib.md5(json.dumps(frame_hashes, sort_keys=True).encode()).hexdigest()[:16],
\* here a two-digit digest of the same sequence.
RECURSIVE DigestSum(_)
DigestSum(frame_hashes) ==
    IF frame_hashes = << >> THEN 13
    ELSE LET last == frame_hashes[Len(frame_hashes)]
         IN (31 * DigestSum(SubSeq(frame_hashes, 1, Len(frame_hashes) - 1))
               + IntOfHex(last.phash) + last.timestamp + 1) % 256

Digest(frame_hashes) ==
    <<DigestSum(frame_hashes) \div 16, DigestSum(frame_hashes) % 16>>

\* The loop over range(0, total_frames, step) from idx on; readable[idx] is
\* the ret of cap.read() at that frame.
RECURSIVE SampleLoop(_, _, _, _, _, _)
SampleLoop(idx, total_frames, step, fps, readable, frame_hashes) ==
    IF idx >= total_frames THEN frame_hashes
    ELSE SampleLoop(idx + step, total_frames, step, fps, readable,
            IF readable[idx]
            THEN Append(frame_hashes, [timestamp |-> idx \div fps,
                                       phash |-> FramePhash(idx)])
            ELSE frame_hashes)

\* range(0, total_frames, 0) raises ValueError.
compute_video_fingerprint(video_path, fps, total_frames, readable, sample_interval) ==
    LET step == fps * sample_interval
    IN IF step = 0
       THEN [raised |-> TRUE, video_path |-> video_path, duration |-> 0,
             frame_hashes |-> << >>, combined_hash |-> << >>]
       ELSE LET frame_hashes == SampleLoop(0, total_frames, step, fps, readable, << >>)
            IN [raised |-> FALSE, video_path |-> video_path,
                duration |-> IF fps > 0 THEN total_frames \div fps ELSE 0,
                frame_hashes |-> frame_hashes,
                combined_hash |-> Digest(frame_hashes)]

(***************************************************************************)
(* FingerprintDB.add_video: one sqlite3 transaction.                       *)
(***************************************************************************)
Db(vs, fs, seq) == [videos |-> vs, frames |-> fs, seq |-> seq]

\* Mutant: a plain INSERT into a table without the UNIQUE(file_path) constraint.
VideoInsertPlain(db, fp) ==
    [db EXCEPT !.videos = Append(db.videos,
                             [id |-> db.seq + 1, file_path |-> fp.video_path,
                              combined_hash |-> fp.combined_hash]),
               !.seq = db.seq + 1]

\* INSERT OR REPLACE INTO video_fingerprints: the row holding the same file_path
\* (UNIQUE) is deleted, the new row gets the next AUTOINCREMENT id.
VideoInsertOrReplace(db, fp) ==
    [db EXCEPT !.videos = Append(SelectSeq(db.videos,
                                     LAMBDA r : r.file_path # fp.video_path),
                             [id |-> db.seq + 1, file_path |-> fp.video_path,
                              combined_hash |-> fp.combined_hash]),
               !.seq = db.seq + 1]

\* The first n iterations of the loop over fingerprint['frame_hashes'].
FramesInsert(db, video_id, frame_hashes, n) ==
    [db EXCEPT !.frames = db.frames \o
        [k \in 1..n |-> [video_id |-> video_id,
                         timestamp |-> frame_hashes[k].timestamp,
                         phash |-> frame_hashes[k].phash]]]

\* Mutant: the connection commits each statement as it runs (no rollback).
ConnExitAutocommit(committed, work, raised) == work

\* sqlite3.Connection.__exit__: commit on success, rollback on an exception.
ConnExit(committed, work, raised) ==
    IF raised THEN committed ELSE work

\* Where a call can raise: Path.stat() (line 182), the video INSERT (185),
\* or the k-th frame INSERT (204); "none" is a call that returns.
FailPoints(fp) ==
    {[at |-> x, k |-> 0] : x \in {"none", "stat", "video"}}
    \cup {[at |-> "frame", k |-> k] : k \in 1..Len(fp.frame_hashes)}

NoFail == [at |-> "none", k |-> 0]

add_video(db, fp, fail) ==
    IF fail.at \in {"stat", "video"} THEN ConnExit(db, db, TRUE)
    ELSE LET withVideo == VideoInsertOrReplace(db, fp)
             video_id == withVideo.seq
         IN IF fail.at = "none"
            THEN ConnExit(db, FramesInsert(withVideo, video_id, fp.frame_hashes,
                                           Len(fp.frame_hashes)), FALSE)
            ELSE ConnExit(db, FramesInsert(withVideo, video_id, fp.frame_hashes,
                                           fail.k - 1), TRUE)

(***************************************************************************)
(* FingerprintDB.find_duplicates, deduplicate, get_stats.                  *)
(***************************************************************************)
\* Mutant: each candidate is compared with the member added last.
RECURSIVE FindDupInnerChained(_, _, _, _, _, _)
FindDupInnerChained(vs, j, hash1, group, processed, threshold) ==
    IF j > Len(vs) THEN [group |-> group, processed |-> processed]
    ELSE IF vs[j].file_path \in processed
         THEN FindDupInnerChained(vs, j + 1, hash1, group, processed, threshold)
         ELSE IF is_similar(hash1, vs[j].combined_hash, threshold)
              THEN FindDupInnerChained(vs, j + 1, vs[j].combined_hash,
                                       Append(group, vs[j].file_path),
                                       processed \cup {vs[j].file_path}, threshold)
              ELSE FindDupInnerChained(vs, j + 1, hash1, group, processed, threshold)

\* The inner loop `for path2, hash2 in videos` from row j on.
RECURSIVE FindDupInner(_, _, _, _, _, _)
FindDupInner(vs, j, hash1, group, processed, threshold) ==
    IF j > Len(vs) THEN [group |-> group, processed |-> processed]
    ELSE IF vs[j].file_path \in processed
         THEN FindDupInner(vs, j + 1, hash1, group, processed, threshold)
         ELSE IF is_similar(hash1, vs[j].combined_hash, threshold)
              THEN FindDupInner(vs, j + 1, hash1, Append(group, vs[j].file_path),
                                processed \cup {vs[j].file_path}, threshold)
              ELSE FindDupInner(vs, j + 1, hash1, group, processed, threshold)

\* Mutant: a new group is put before the groups found so far.
RECURSIVE FindDupOuterNewestFirst(_, _, _, _, _)
FindDupOuterNewestFirst(vs, i, groups, processed, threshold) ==
    IF i > Len(vs) THEN groups
    ELSE IF vs[i].file_path \in processed
         THEN FindDupOuterNewestFirst(vs, i + 1, groups, processed, threshold)
         ELSE LET r == FindDupInner(vs, 1, vs[i].combined_hash, <<vs[i].file_path>>,
                                    processed \cup {vs[i].file_path}, threshold)
              IN FindDupOuterNewestFirst(vs, i + 1,
                              IF Len(r.group) > 1 THEN <<r.group>> \o groups ELSE groups,
                              r.processed, threshold)

\* The outer loop `for path1, hash1 in videos` from row i on.
RECURSIVE FindDupOuter(_, _, _, _, _)
FindDupOuter(vs, i, groups, processed, threshold) ==
    IF i > Len(vs) THEN groups
    ELSE IF vs[i].file_path \in processed
         THEN FindDupOuter(vs, i + 1, groups, processed, threshold)
         ELSE LET r == FindDupInner(vs, 1, vs[i].combined_hash, <<vs[i].file_path>>,
                                    processed \cup {vs[i].file_path}, threshold)
              IN FindDupOuter(vs, i + 1,
                              IF Len(r.group) > 1 THEN Append(groups, r.group) ELSE groups,
                              r.processed, threshold)

find_duplicates(vs, threshold) == FindDupOuter(vs, 1, << >>, {}, threshold)

\* Mutant: group[0:] instead of group[1:], the first member is marked as well.
DuplicateSetWithFirst(groups) ==
    UNION { {groups[g][k] : k \in 1..Len(groups[g])} : g \in 1..Len(groups) }

\* Mutant: group[2:] instead of group[1:], the second member is not marked.
DuplicateSetFromThird(groups) ==
    UNION { {groups[g][k] : k \in 3..Len(groups[g])} : g \in 1..Len(groups) }

\* duplicate_set: every member but the first of every group
DuplicateSet(groups) ==
    UNION { {groups[g][k] : k \in 2..Len(groups[g])} : g \in 1..Len(groups) }

\* Mutant: list.remove(path) for each duplicate, which drops its first occurrence only.
RECURSIVE RemoveFirstOccurrences(_, _)
RemoveFirstOccurrences(file_list, dups) ==
    IF file_list = << >> THEN << >>
    ELSE IF Head(file_list) \in dups
         THEN RemoveFirstOccurrences(Tail(file_list), dups \ {Head(file_list)})
         ELSE <<Head(file_list)>> \o RemoveFirstOccurrences(Tail(file_list), dups)

\* [f for f in file_list if f not in duplicate_set]
FilterOut(file_list, dups) ==
    SelectSeq(file_list, LAMBDA f : f \notin dups)

deduplicate(vs, file_list, threshold) ==
    FilterOut(file_list, DuplicateSet(find_duplicates(vs, threshold)))

\* Path(video_path).stat().st_size, the file_size column of the row
FileSize(path) ==
    CASE path = "a.mp4" -> 3
      [] path = "b.mp4" -> 5
      [] OTHER -> 2

\* SQL NULL, Python None
Null == -2

\* SELECT SUM(file_size) FROM video_fingerprints: NULL when there is no row
RECURSIVE SumFileSize(_)
SumFileSize(vs) ==
    IF vs = << >> THEN Null
    ELSE LET rest == SumFileSize(Tail(vs))
         IN FileSize(Head(vs).file_path) + (IF rest = Null THEN 0 ELSE rest)

\* x or 0
OrZero(x) == IF x = Null \/ x = 0 THEN 0 ELSE x

\* total_size is in bytes here, total_size_gb in the code.
get_stats(vs, fs) ==
    [video_count |-> OrZero(Len(vs)), total_size |-> OrZero(SumFileSize(vs)),
     frame_samples |-> OrZero(Len(fs))]

\* SELECT ... FROM frame_hashes f JOIN video_fingerprints v ON f.video_id = v.id
VideoById(vs, id) == CHOOSE r \in {vs[i] : i \in 1..Len(vs)} : r.id = id

JoinFrames(vs, fs) ==
    LET ids == {vs[i].id : i \in 1..Len(vs)}
        joined == SelectSeq(fs, LAMBDA f : f.video_id \in ids)
    IN [k \in 1..Len(joined) |->
            [file_path |-> VideoById(vs, joined[k].video_id).file_path,
             timestamp |-> joined[k].timestamp, phash |-> joined[k].phash]]

SegmentThreshold == 3

\* 1 - (distance / 64), counted in 64ths.
SimilarityBits == 64
Similarity(distance) == SimilarityBits - distance

\* Mutant: a match goes before the matches of equal similarity.
InsertMatchBeforeTies(sorted, m) ==
    LET n == Cardinality({i \in 1..Len(sorted) : sorted[i].similarity > m.similarity})
    IN SubSeq(sorted, 1, n) \o <<m>> \o SubSeq(sorted, n + 1, Len(sorted))

\* One step of sorted(matches, key=similarity, reverse=True): the sort is
\* stable, so m goes after every match at least as similar.
InsertMatch(sorted, m) ==
    LET n == Cardinality({i \in 1..Len(sorted) : sorted[i].similarity >= m.similarity})
    IN SubSeq(sorted, 1, n) \o <<m>> \o SubSeq(sorted, n + 1, Len(sorted))

\* The loop over the joined frames from row k on, then the sort.
RECURSIVE SegmentMatches(_, _, _, _, _)
SegmentMatches(rows, k, phash, threshold, matches) ==
    IF k > Len(rows) THEN matches
    ELSE LET distance == HammingTable[phash, rows[k].phash]
         IN SegmentMatches(rows, k + 1, phash, threshold,
                IF DistanceWithin(distance, threshold)
                THEN Append(matches, [file_path |-> rows[k].file_path,
                                      timestamp |-> rows[k].timestamp,
                                      similarity |-> Similarity(distance)])
                ELSE matches)

RECURSIVE SortMatches(_)
SortMatches(matches) ==
    IF matches = << >> THEN << >>
    ELSE InsertMatch(SortMatches(SubSeq(matches, 1, Len(matches) - 1)),
                     matches[Len(matches)])

find_similar_segments(vs, fs, phash, threshold) ==
    SortMatches(SegmentMatches(JoinFrames(vs, fs), 1, phash, threshold, << >>))

(***************************************************************************)
(* SemanticIndex: the in-memory dicts and the two persisted artifacts.     *)
(***************************************************************************)
\* A Python dict: entries [key, val] in insertion order, keys distinct.
DictHas(d, k) == \E i \in 1..Len(d) : d[i].key = k

DictGet(d, k) == d[CHOOSE i \in 1..Len(d) : d[i].key = k].val

\* Mutant: every assignment adds an entry.
DictAppend(d, k, v) == Append(d, [key |-> k, val |-> v])

\* d[k] = v: an existing key keeps its place, a new key goes last
DictSet(d, k, v) ==
    IF DictHas(d, k)
    THEN [i \in 1..Len(d) |-> IF d[i].key = k THEN [key |-> k, val |-> v] ELSE d[i]]
    ELSE Append(d, [key |-> k, val |-> v])

DictKeys(d) == {d[i].key : i \in 1..Len(d)}

\* What the decoder reports for each file: total_frames / fps, in seconds.
Duration(path) ==
    CASE path = "a.mp4" -> 14
      [] path = "b.mp4" -> 8
      [] path = "a.mov" -> 2
      [] OTHER -> 0

\* Path(video_path).stem
Stem(path) ==
    CASE path = "a.mp4" -> "a"
      [] path = "b.mp4" -> "b"
      [] path = "a.mov" -> "a"
      [] OTHER -> "z"

\* encoder.encode_image of the frame in the middle of window i of the file.
Embedding(path, i) ==
    CASE path = "a.mp4" /\ i = 0 -> <<1, 0>>
      [] path = "a.mp4" /\ i # 0 -> <<0, 1>>
      [] path = "b.mp4" -> <<1, 0>>
      [] OTHER -> <<1, 1>>

\* encoder.encode_text of the queries of the model.
QueryVectors == {<<1, 0>>, <<0, 1>>}

\* np.dot
Dot(u, v) == u[1] * v[1] + u[2] * v[2]

DefaultClipDuration == 10
MinWindow == 1
DefaultMinDuration == 3
TestMinDuration == 2
MinDurations == {TestMinDuration, DefaultMinDuration}
TopKs == 0..MaxTopK

\* Mutant: the window after the last whole one is not counted.
NumClipsNoRemainder(path, clip_duration) == Duration(path) \div clip_duration

\* num_clips = int(duration / clip_duration) + 1
NumClips(path, clip_duration) == (Duration(path) \div clip_duration) + 1

\* What happens in each window: "ok", "skip" (the frame is None or encode_image
\* raises, both followed by continue), "raise" (_extract_frame raises).
WindowOutcomes(path, clip_duration) ==
    [0..(NumClips(path, clip_duration) - 1) -> {"ok", "skip", "raise"}]

\* clip_id = f"{Path(video_path).stem}_{i:04d}"
ClipId(path, i) == <<Stem(path), i>>

\* The loop of index_video from window i on.
RECURSIVE IndexLoop(_, _, _, _, _, _, _)
IndexLoop(vecs, meta, clip_ids, path, clip_duration, i, outcome) ==
    IF i >= NumClips(path, clip_duration)
    THEN [vectors |-> vecs, metadata |-> meta, clip_ids |-> clip_ids, raised |-> FALSE]
    ELSE LET start_time == i * clip_duration
             end_time == Min((i + 1) * clip_duration, Duration(path))
         IN IF end_time - start_time < MinWindow
            THEN IndexLoop(vecs, meta, clip_ids, path, clip_duration, i + 1, outcome)
            ELSE IF outcome[i] = "raise"
            THEN [vectors |-> vecs, metadata |-> meta, clip_ids |-> clip_ids,
                  raised |-> TRUE]
            ELSE IF outcome[i] = "skip"
            THEN IndexLoop(vecs, meta, clip_ids, path, clip_duration, i + 1, outcome)
            ELSE LET clip_id == ClipId(path, i)
                 IN IndexLoop(DictSet(vecs, clip_id, Embedding(path, i)),
                              DictSet(meta, clip_id,
                                      [file_path |-> path, start_time |-> start_time,
                                       end_time |-> end_time,
                                       duration |-> end_time - start_time]),
                              Append(clip_ids, clip_id),
                              path, clip_duration, i + 1, outcome)

index_video(vecs, meta, path, clip_duration, outcome) ==
    IndexLoop(vecs, meta, << >>, path, clip_duration, 0, outcome)

\* What progress_callback(i + 1, len(video_files)) does, when one is given.
CallbackOutcomes == {"ok", "raise"}

\* Mutant: total_clips is added to after progress_callback has returned.
BatchTotalAfterCallback(total_clips, r, callback) ==
    IF r.raised \/ callback = "raise" THEN total_clips
    ELSE total_clips + Len(r.clip_ids)

\* total_clips += len(clip_ids), skipped when index_video raised.
BatchTotal(total_clips, r, callback) ==
    IF r.raised THEN total_clips ELSE total_clips + Len(r.clip_ids)

\* The loop of search over self.vectors.items() from entry i on;
\* self.metadata[clip_id] raises KeyError for a vector without metadata.
RECURSIVE Similarities(_, _, _, _, _, _)
Similarities(vecs, meta, i, query_vec, min_duration, acc) ==
    IF i > Len(vecs) THEN [raised |-> FALSE, similarities |-> acc]
    ELSE IF ~DictHas(meta, vecs[i].key)
         THEN [raised |-> TRUE, similarities |-> acc]
         ELSE IF DictGet(meta, vecs[i].key).duration < min_duration
              THEN Similarities(vecs, meta, i + 1, query_vec, min_duration, acc)
              ELSE Similarities(vecs, meta, i + 1, query_vec, min_duration,
                                Append(acc, [clip_id |-> vecs[i].key,
                                             score |-> Dot(query_vec, vecs[i].val)]))

\* Mutant: an entry is placed before the entries of equal score.
InsertDescBeforeTies(sorted, x) ==
    LET n == Cardinality({i \in 1..Len(sorted) : sorted[i].score > x.score})
    IN SubSeq(sorted, 1, n) \o <<x>> \o SubSeq(sorted, n + 1, Len(sorted))

\* One step of the stable sort by descending score: x goes after every entry
\* whose score is at least its own.
InsertDesc(sorted, x) ==
    LET n == Cardinality({i \in 1..Len(sorted) : sorted[i].score >= x.score})
    IN SubSeq(sorted, 1, n) \o <<x>> \o SubSeq(sorted, n + 1, Len(sorted))

\* similarities.sort(key=lambda x: x[1], reverse=True)
RECURSIVE SortDesc(_)
SortDesc(sims) ==
    IF sims = << >> THEN << >>
    ELSE InsertDesc(SortDesc(SubSeq(sims, 1, Len(sims) - 1)), sims[Len(sims)])

\* Mutant: the slice is left out.
SliceAll(sims, top_k) == sims

\* similarities[:top_k], top_k a count
SliceTopK(sims, top_k) == SubSeq(sims, 1, Min(top_k, Len(sims)))

SearchResult(meta, entry) ==
    LET m == DictGet(meta, entry.clip_id)
    IN [clip_id |-> entry.clip_id, file_path |-> m.file_path,
        start_time |-> m.start_time, end_time |-> m.end_time,
        duration |-> m.duration, similarity_score |-> entry.score]

\* Mutant: the check for an empty index is left out.
SearchNoEmptyCheck(vecs, meta, query_vec, top_k, min_duration, encoder_ok) ==
    IF ~encoder_ok THEN [raised |-> TRUE, results |-> << >>]
    ELSE LET s == Similarities(vecs, meta, 1, query_vec, min_duration, << >>)
         IN IF s.raised THEN [raised |-> TRUE, results |-> << >>]
            ELSE LET top == SliceTopK(SortDesc(s.similarities), top_k)
                 IN [raised |-> FALSE,
                     results |-> [k \in 1..Len(top) |-> SearchResult(meta, top[k])]]

\* encoder_ok = FALSE: encode_text raises (the model cannot be loaded).
search(vecs, meta, query_vec, top_k, min_duration, encoder_ok) ==
    IF vecs = << >> THEN [raised |-> FALSE, results |-> << >>]
    ELSE IF ~encoder_ok THEN [raised |-> TRUE, results |-> << >>]
    ELSE LET s == Similarities(vecs, meta, 1, query_vec, min_duration, << >>)
         IN IF s.raised THEN [raised |-> TRUE, results |-> << >>]
            ELSE LET top == SliceTopK(SortDesc(s.similarities), top_k)
                 IN [raised |-> FALSE,
                     results |-> [k \in 1..Len(top) |-> SearchResult(meta, top[k])]]

sem_get_stats(vecs, meta) ==
    [indexed_clips |-> Len(vecs),
     indexed_videos |-> Cardinality({meta[i].val.file_path : i \in 1..Len(meta)})]

\* A persisted artifact: "missing", "corrupt" (it cannot be decoded) or "ok".
File(status, data) == [status |-> status, data |-> data]

\* np.save(vectors_file, self.vectors): the pickled dict, its items in
\* insertion order.
np_save(vecs) == [i \in 1..Len(vecs) |-> <<vecs[i].key, vecs[i].val>>]

\* Mutant: the items are read back last to first.
NpLoadReversed(data, i, acc) ==
    [k \in 1..Len(data) |->
        [key |-> data[Len(data) + 1 - k][1], val |-> data[Len(data) + 1 - k][2]]]

\* {k: v for k, v in data.items()} from item i on
RECURSIVE NpLoadItems(_, _, _)
NpLoadItems(data, i, acc) ==
    IF i > Len(data) THEN acc
    ELSE NpLoadItems(data, i + 1, DictSet(acc, data[i][1], data[i][2]))

\* np.load(vectors_file, allow_pickle=True).item() and the comprehension
np_load(data) == NpLoadItems(data, 1, << >>)

\* json.dump(self.metadata, f): one member per clip_id, in insertion order,
\* its value an object of name/value members.
json_dump(meta) ==
    [i \in 1..Len(meta) |->
        <<meta[i].key,
          << <<"file_path", meta[i].val.file_path>>,
             <<"start_time", meta[i].val.start_time>>,
             <<"end_time", meta[i].val.end_time>>,
             <<"duration", meta[i].val.duration>> >> >>]

\* The value of the member called name of a decoded JSON object.
JsonMember(members, name) ==
    members[CHOOSE j \in 1..Len(members) : members[j][1] = name][2]

\* json.load(f) from member i on: a dict in the order of the text.
RECURSIVE JsonLoadMembers(_, _, _)
JsonLoadMembers(text, i, acc) ==
    IF i > Len(text) THEN acc
    ELSE JsonLoadMembers(text, i + 1,
            DictSet(acc, text[i][1],
                    [file_path |-> JsonMember(text[i][2], "file_path"),
                     start_time |-> JsonMember(text[i][2], "start_time"),
                     end_time |-> JsonMember(text[i][2], "end_time"),
                     duration |-> JsonMember(text[i][2], "duration")]))

json_load(text) == JsonLoadMembers(text, 1, << >>)

\* _load_index on the empty dicts of __init__
load_index(vfile, mfile) ==
    IF vfile.status # "missing" /\ mfile.status # "missing"
    THEN IF vfile.status = "corrupt"
         THEN [vectors |-> << >>, metadata |-> << >>]
         ELSE IF mfile.status = "corrupt"
              THEN [vectors |-> np_load(vfile.data), metadata |-> << >>]
              ELSE [vectors |-> np_load(vfile.data),
                    metadata |-> json_load(mfile.data)]
    ELSE [vectors |-> << >>, metadata |-> << >>]

(***************************************************************************)
(* The fingerprint store: add_video, find_duplicates, deduplicate.         *)
(***************************************************************************)
InitStoreVars ==
    /\ videos = << >>
    /\ frames = << >>
    /\ videoSeq = 0
    /\ latest = [p \in Paths |-> NoPrint]

InitScanVars ==
    /\ scanFiles = << >>
    /\ scanPos = 0
    /\ indexed = 0
    /\ progress = << >>
    /\ scanPc = "idle"

InitSemVars ==
    /\ vectors = << >>
    /\ metadata = << >>
    /\ vectorsFile = [status |-> "missing", data |-> << >>]
    /\ metadataFile = [status |-> "missing", data |-> << >>]
    /\ batchFiles = << >>
    /\ batchPos = 0
    /\ totalClips = 0
    /\ batchPc = "idle"
    /\ batchLog = << >>

\* Two processes that open the same index_path.
Writers == {1, 2}

InitWriterVars ==
    /\ wIndex = [w \in Writers |-> [vectors |-> << >>, metadata |-> << >>]]
    /\ wBatch = [w \in Writers |-> [files |-> << >>, pos |-> 0, total_clips |-> 0]]
    /\ wProduced = [w \in Writers |-> {}]
    /\ wPc = [w \in Writers |-> "new"]

\* No create call is running and nothing has been rendered.
NoCreate == [pc |-> "idle"]

InitCreateVars ==
    /\ createCall = NoCreate
    /\ outputs = {}

Init ==
    /\ InitStoreVars
    /\ InitScanVars
    /\ InitSemVars
    /\ InitWriterVars
    /\ InitCreateVars
    /\ ret = [op |-> "none"]

AddVideo(path, print, fail) ==
    LET fp == Fingerprint(path, print)
        db == add_video(Db(videos, frames, videoSeq), fp, fail)
    IN /\ scanPc = "idle"
       /\ videoSeq < MaxAdds
       /\ videos' = db.videos
       /\ frames' = db.frames
       /\ videoSeq' = db.seq
       /\ latest' = IF fail.at = "none" THEN [latest EXCEPT ![path] = print] ELSE latest
       /\ ret' = [op |-> "add_video", video_path |-> path, fail |-> fail,
                  raised |-> fail.at # "none",
                  result |-> IF fail.at = "none" THEN db.seq ELSE 0]
       /\ UNCHANGED <<scanVars, semVars, writerVars, createVars>>

\* A query leaves the store as it is: one made right after another query reaches
\* nothing the first could not reach, so queries follow construction or an update.
QueryPoint ==
    ret.op \notin {"find_duplicates", "find_similar_segments", "deduplicate", "search",
                   "get_stats", "sem_get_stats"}

FindDuplicates(threshold) ==
    /\ QueryPoint
    /\ ret' = [op |-> "find_duplicates", threshold |-> threshold,
               result |-> find_duplicates(videos, threshold)]
    /\ UNCHANGED <<storeVars, scanVars, semVars, writerVars, createVars>>

Deduplicate(file_list, threshold) ==
    /\ QueryPoint
    /\ ret' = [op |-> "deduplicate", file_list |-> file_list, threshold |-> threshold,
               result |-> deduplicate(videos, file_list, threshold)]
    /\ UNCHANGED <<storeVars, scanVars, semVars, writerVars, createVars>>

NextStore ==
    \/ \E path \in Paths : \E print \in Prints(path) :
         \E fail \in FailPoints(Fingerprint(path, print)) : AddVideo(path, print, fail)
    \/ \E threshold \in Thresholds : FindDuplicates(threshold)

SpecStore == Init /\ [][NextStore]_vars

NextDedup ==
    \/ \E path \in Paths : \E print \in Prints(path) : AddVideo(path, print, NoFail)
    \/ \E file_list \in FileLists, threshold \in Thresholds :
         Deduplicate(file_list, threshold)

SpecDedup == Init /\ [][NextDedup]_vars

(***************************************************************************)
(* FingerprintDB.scan_and_index, one loop iteration per step.              *)
(***************************************************************************)
\* What happens to an enumerated file: "ok", "decode_error" when
\* compute_video_fingerprint raises, "add_error" when add_video raises.
Outcomes == {"ok", "decode_error", "add_error"}

\* A directory listing: some of the files, each once, in any order.
Listings ==
    {l \in SeqsUpTo({[path |-> p, outcome |-> o] : p \in Paths, o \in Outcomes},
                    Cardinality(Paths)) :
        \A i, j \in 1..Len(l) : l[i].path = l[j].path => i = j}

\* Mutant: the try/except encloses the loop, an exception leaves it.
AfterFileErrorAbort(pos, total) == total

\* except Exception: print(...), and the loop goes on with the next file.
AfterFileError(pos, total) == pos + 1

ScanStart(files) ==
    /\ scanPc = "idle"
    /\ scanFiles' = files
    /\ scanPos' = 0
    /\ indexed' = 0
    /\ progress' = << >>
    /\ scanPc' = "loop"
    /\ ret' = [op |-> "running"]
    /\ UNCHANGED <<storeVars, semVars, writerVars, createVars>>

ScanStep ==
    /\ scanPc = "loop"
    /\ scanPos < Len(scanFiles)
    /\ LET file == scanFiles[scanPos + 1]
           total == Len(scanFiles)
           db == Db(videos, frames, videoSeq)
       IN \/ /\ file.outcome = "decode_error"
             /\ scanPos' = AfterFileError(scanPos, total)
             /\ UNCHANGED <<storeVars, indexed, progress>>
          \/ /\ file.outcome = "add_error"
             /\ \E print \in Prints(file.path) :
                  \E fail \in FailPoints(Fingerprint(file.path, print)) \ {NoFail} :
                    LET after == add_video(db, Fingerprint(file.path, print), fail)
                    IN /\ videos' = after.videos
                       /\ frames' = after.frames
                       /\ videoSeq' = after.seq
             /\ scanPos' = AfterFileError(scanPos, total)
             /\ UNCHANGED <<latest, indexed, progress>>
          \/ /\ file.outcome = "ok"
             /\ \E print \in Prints(file.path) :
                  LET after == add_video(db, Fingerprint(file.path, print), NoFail)
                  IN /\ videos' = after.videos
                     /\ frames' = after.frames
                     /\ videoSeq' = after.seq
                     /\ latest' = [latest EXCEPT ![file.path] = print]
             /\ indexed' = indexed + 1
             /\ progress' = Append(progress, <<scanPos + 1, total>>)
             /\ scanPos' = scanPos + 1
    /\ UNCHANGED <<scanFiles, scanPc, semVars, writerVars, createVars, ret>>

ScanReturn ==
    /\ scanPc = "loop"
    /\ scanPos >= Len(scanFiles)
    /\ scanPc' = "done"
    /\ ret' = [op |-> "scan_and_index", result |-> indexed]
    /\ UNCHANGED <<storeVars, semVars, writerVars, createVars, scanFiles, scanPos, indexed, progress>>

NextScan ==
    \/ \E files \in Listings : ScanStart(files)
    \/ ScanStep
    \/ ScanReturn

SpecScan == Init /\ [][NextScan]_vars

(***************************************************************************)
(* SemanticIndex: construction, index_video, batch_index, search.          *)
(***************************************************************************)
\* SemanticIndex(index_path) on the artifacts as they are: a restart.
Construct ==
    /\ batchPc \in {"idle", "ended"}
    /\ LET loaded == load_index(vectorsFile, metadataFile)
       IN /\ vectors' = loaded.vectors
          /\ metadata' = loaded.metadata
    /\ batchPc' = "idle"
    /\ ret' = [op |-> "construct", raised |-> FALSE,
               vectors_file |-> vectorsFile.status,
               metadata_file |-> metadataFile.status]
    /\ UNCHANGED <<storeVars, scanVars, writerVars, createVars, diskVars, batchFiles, batchPos, totalClips,
                   batchLog>>

\* Outside the program an artifact is removed, or damaged (a write cut short).
DamageVectors(how) ==
    /\ batchPc = "idle"
    /\ vectorsFile.status = "ok"
    /\ vectorsFile' = File(how, << >>)
    /\ ret' = [op |-> "damage"]
    /\ UNCHANGED <<storeVars, scanVars, writerVars, createVars, indexVars, metadataFile, batchVars>>

DamageMetadata(how) ==
    /\ batchPc = "idle"
    /\ metadataFile.status = "ok"
    /\ metadataFile' = File(how, << >>)
    /\ ret' = [op |-> "damage"]
    /\ UNCHANGED <<storeVars, scanVars, writerVars, createVars, indexVars, vectorsFile, batchVars>>

IndexVideo(path, outcome) ==
    /\ batchPc = "idle"
    /\ LET r == index_video(vectors, metadata, path, DefaultClipDuration, outcome)
       IN /\ vectors' = r.vectors
          /\ metadata' = r.metadata
          /\ ret' = [op |-> "index_video", video_path |-> path, raised |-> r.raised,
                     result |-> r.clip_ids]
    /\ UNCHANGED <<storeVars, scanVars, writerVars, createVars, diskVars, batchVars>>

BatchStart(files) ==
    /\ batchPc = "idle"
    /\ batchFiles' = files
    /\ batchPos' = 0
    /\ totalClips' = 0
    /\ batchPc' = "loop"
    /\ batchLog' = << >>
    /\ ret' = [op |-> "running"]
    /\ UNCHANGED <<storeVars, scanVars, writerVars, createVars, indexVars, diskVars>>

\* One iteration of the loop: index_video, total_clips += len(clip_ids), then
\* progress_callback, all inside the try; whatever raises is caught and printed.
BatchStep(callbacks) ==
    /\ batchPc = "loop"
    /\ batchPos < Len(batchFiles)
    /\ \E outcome \in WindowOutcomes(batchFiles[batchPos + 1], DefaultClipDuration),
          callback \in callbacks :
         LET r == index_video(vectors, metadata, batchFiles[batchPos + 1],
                              DefaultClipDuration, outcome)
         IN /\ vectors' = r.vectors
            /\ metadata' = r.metadata
            /\ totalClips' = BatchTotal(totalClips, r, callback)
            /\ batchLog' = Append(batchLog,
                    [video_path |-> batchFiles[batchPos + 1], raised |-> r.raised,
                     clip_ids |-> r.clip_ids,
                     callback |-> IF r.raised THEN "not called" ELSE callback])
    /\ batchPos' = batchPos + 1
    /\ UNCHANGED <<storeVars, scanVars, writerVars, createVars, diskVars, batchFiles, batchPc, ret>>

\* After the loop: _save_index writes both artifacts, then return total_clips
\* (the locals of the call are gone).
BatchFinish ==
    /\ batchPc = "loop"
    /\ batchPos >= Len(batchFiles)
    /\ vectorsFile' = File("ok", np_save(vectors))
    /\ metadataFile' = File("ok", json_dump(metadata))
    /\ batchFiles' = << >>
    /\ batchPos' = 0
    /\ totalClips' = 0
    /\ batchPc' = "idle"
    /\ batchLog' = << >>
    /\ ret' = [op |-> "batch_index", result |-> totalClips, video_files |-> batchFiles,
               attempts |-> batchLog]
    /\ UNCHANGED <<storeVars, scanVars, writerVars, createVars, indexVars>>

\* The process ends inside _save_index, between np.save and the write of
\* metadata.json: vectors.npy is new, metadata.json is the one of the save
\* before. Nothing of the process is left; the index is constructed anew.
SaveInterrupted ==
    /\ batchPc = "loop"
    /\ batchPos >= Len(batchFiles)
    /\ metadataFile.status = "ok"
    /\ vectorsFile' = File("ok", np_save(vectors))
    /\ vectors' = << >>
    /\ metadata' = << >>
    /\ batchFiles' = << >>
    /\ batchPos' = 0
    /\ totalClips' = 0
    /\ batchPc' = "ended"
    /\ batchLog' = << >>
    /\ ret' = [op |-> "ended"]
    /\ UNCHANGED <<storeVars, scanVars, writerVars, createVars, metadataFile>>

Search(query_vec, top_k, min_duration, encoder_ok) ==
    /\ batchPc = "idle"
    /\ QueryPoint
    /\ LET r == search(vectors, metadata, query_vec, top_k, min_duration, encoder_ok)
       IN ret' = [op |-> "search", query_vec |-> query_vec, top_k |-> top_k,
                  min_duration |-> min_duration, encoder_ok |-> encoder_ok,
                  raised |-> r.raised, result |-> r.results]
    /\ UNCHANGED <<storeVars, scanVars, semVars, writerVars, createVars>>

\* The files handed to batch_index: two with the same stem, one too short for a clip.
BatchPaths == {"a.mp4", "a.mov", UnindexedPath}

BatchLists == SeqsUpTo(BatchPaths, MaxBatch)

\* The index in memory: index_video and search.
NextSearch ==
    \/ \E path \in ListPaths :
         \E outcome \in WindowOutcomes(path, DefaultClipDuration) : IndexVideo(path, outcome)
    \/ \E query_vec \in QueryVectors, top_k \in TopKs, min_duration \in MinDurations,
          encoder_ok \in BOOLEAN :
         Search(query_vec, top_k, min_duration, encoder_ok)

SpecSearch == Init /\ [][NextSearch]_vars

\* The index and its artifacts: batch_index, damage, restart.
NextPersist ==
    \/ Construct
    \/ \E how \in {"missing", "corrupt"} : DamageVectors(how)
    \/ \E how \in {"missing", "corrupt"} : DamageMetadata(how)
    \/ \E files \in BatchLists : BatchStart(files)
    \/ BatchStep({"ok"})
    \/ BatchFinish
    \/ SaveInterrupted

SpecPersist == Init /\ [][NextPersist]_vars

\* batch_index called again and again on one index, with a progress callback
\* that may raise.
NextBatch ==
    \/ \E files \in BatchLists : BatchStart(files)
    \/ BatchStep(CallbackOutcomes)
    \/ BatchFinish

SpecBatch == Init /\ [][NextBatch]_vars

(***************************************************************************)
(* Two processes, each with its own SemanticIndex on the same index_path,  *)
(* each running batch_index once.  _save_index is two writes.              *)
(***************************************************************************)
WriterPaths == {"a.mp4", "b.mp4"}

WriterLists == SeqsUpTo(WriterPaths, MaxWriterFiles)

WConstruct(w) ==
    /\ wPc[w] = "new"
    /\ wIndex' = [wIndex EXCEPT ![w] = load_index(vectorsFile, metadataFile)]
    /\ wPc' = [wPc EXCEPT ![w] = "idle"]
    /\ UNCHANGED <<storeVars, scanVars, createVars, semVars, wBatch, wProduced, ret>>

WBatchStart(w, files) ==
    /\ wPc[w] = "idle"
    /\ wBatch' = [wBatch EXCEPT ![w] = [files |-> files, pos |-> 0, total_clips |-> 0]]
    /\ wPc' = [wPc EXCEPT ![w] = "loop"]
    /\ UNCHANGED <<storeVars, scanVars, createVars, semVars, wIndex, wProduced, ret>>

WBatchStep(w) ==
    /\ wPc[w] = "loop"
    /\ wBatch[w].pos < Len(wBatch[w].files)
    /\ LET path == wBatch[w].files[wBatch[w].pos + 1]
       IN \E outcome \in WindowOutcomes(path, DefaultClipDuration) :
            LET r == index_video(wIndex[w].vectors, wIndex[w].metadata, path,
                                 DefaultClipDuration, outcome)
                ids == IF r.raised THEN << >> ELSE r.clip_ids
            IN /\ wIndex' = [wIndex EXCEPT ![w] =
                                [vectors |-> r.vectors, metadata |-> r.metadata]]
               /\ wBatch' = [wBatch EXCEPT ![w].pos = @ + 1,
                                           ![w].total_clips = @ + Len(ids)]
               /\ wProduced' = [wProduced EXCEPT ![w] =
                                   @ \cup {ids[k] : k \in 1..Len(ids)}]
    /\ UNCHANGED <<storeVars, scanVars, createVars, semVars, wPc, ret>>

\* _save_index, first write: np.save(vectors_file, self.vectors)
WSaveVectors(w) ==
    /\ wPc[w] = "loop"
    /\ wBatch[w].pos >= Len(wBatch[w].files)
    /\ vectorsFile' = File("ok", np_save(wIndex[w].vectors))
    /\ wPc' = [wPc EXCEPT ![w] = "saving"]
    /\ UNCHANGED <<storeVars, scanVars, createVars, indexVars, metadataFile, batchVars,
                   wIndex, wBatch, wProduced, ret>>

\* _save_index, second write: json.dump(self.metadata, f); batch_index returns.
WSaveMetadata(w) ==
    /\ wPc[w] = "saving"
    /\ metadataFile' = File("ok", json_dump(wIndex[w].metadata))
    /\ wPc' = [wPc EXCEPT ![w] = "done"]
    /\ UNCHANGED <<storeVars, scanVars, createVars, indexVars, vectorsFile, batchVars,
                   wIndex, wBatch, wProduced, ret>>

NextWriters ==
    \E w \in Writers :
        \/ WConstruct(w)
        \/ \E files \in WriterLists : WBatchStart(w, files)
        \/ WBatchStep(w)
        \/ WSaveVectors(w)
        \/ WSaveMetadata(w)

SpecWriters == Init /\ [][NextWriters]_vars

(***************************************************************************)
(* OpenCutPipeline._search_materials: the retrieval facade.                *)
(***************************************************************************)
\* batch_index from file i on; outcomes[i] is what happens in the windows of
\* file i.  A file whose index_video raises adds nothing to total_clips.
RECURSIVE BatchLoop(_, _, _, _, _, _)
BatchLoop(vecs, meta, video_files, i, outcomes, total_clips) ==
    IF i > Len(video_files)
    THEN [vectors |-> vecs, metadata |-> meta, total_clips |-> total_clips]
    ELSE LET r == index_video(vecs, meta, video_files[i], DefaultClipDuration,
                              outcomes[i])
         IN BatchLoop(r.vectors, r.metadata, video_files, i + 1, outcomes,
                      IF r.raised THEN total_clips ELSE total_clips + Len(r.clip_ids))

batch_index(vecs, meta, video_files, outcomes) ==
    BatchLoop(vecs, meta, video_files, 1, outcomes, 0)

\* _scan_storage: the files found under storage.path, one rglob per extension
\* (.mp4 before .mov), each rglob in directory order.
StorageOrder == <<"a.mp4", "b.mp4", UnindexedPath, "a.mov">>

StorageListings ==
    {SelectSeq(StorageOrder, LAMBDA f : f \in present) : present \in SUBSET ListPaths}

\* What happens to each file of a batch: every window encoded, or
\* _extract_frame raising in the first window.
FileOutcomes(video_files) ==
    {[i \in 1..Len(video_files) |->
        [w \in 0..(NumClips(video_files[i], DefaultClipDuration) - 1) |-> o[i]]] :
     o \in [1..Len(video_files) -> {"ok", "raise"}]}

\* config['indexer']['semantic']['top_k']
ConfigTopK == MaxTopK

\* batch_index(unique_files, progress): the whole deduplicated list
BatchInput(meta, unique_files) == unique_files

\* if existing_clips < len(unique_files)
Stale(existing_clips, unique_files) == existing_clips < Len(unique_files)

\* One call of _search_materials.  (A value bound by \E over a singleton set
\* is computed once.)
SearchMaterials(all_files, query_vec) ==
    /\ scanPc = "idle" /\ batchPc = "idle"
    /\ \E unique_files \in {deduplicate(videos, all_files, DefaultThreshold)} :
       \E existing_clips \in {sem_get_stats(vectors, metadata).indexed_clips} :
       \E run \in {Stale(existing_clips, unique_files)} :
       \E given \in {IF run THEN BatchInput(metadata, unique_files) ELSE << >>} :
       \E outcomes \in FileOutcomes(given) :
       \E b \in {IF run THEN batch_index(vectors, metadata, given, outcomes)
                 ELSE [vectors |-> vectors, metadata |-> metadata, total_clips |-> 0]} :
       \E r \in {search(b.vectors, b.metadata, query_vec, ConfigTopK,
                        DefaultMinDuration, TRUE)} :
            /\ vectors' = b.vectors
            /\ metadata' = b.metadata
            /\ vectorsFile' = IF run THEN File("ok", np_save(b.vectors))
                              ELSE vectorsFile
            /\ metadataFile' = IF run THEN File("ok", json_dump(b.metadata))
                               ELSE metadataFile
            /\ ret' = [op |-> "search_materials", all_files |-> all_files,
                       unique_files |-> unique_files,
                       existing_clips |-> existing_clips,
                       batch_ran |-> run, batch_files |-> given,
                       raised |-> r.raised, result |-> r.results]
    /\ UNCHANGED <<storeVars, scanVars, batchVars, writerVars, createVars>>

\* The fingerprint store is filled by scan_and_index elsewhere; the facade only
\* reads it.
FacadeAddVideo(path, print) ==
    /\ videoSeq < MaxFacadeAdds
    /\ AddVideo(path, print, NoFail)

\* The query of the facade's caller.
FacadeQuery == <<1, 0>>

NextFacade ==
    \/ \E path \in Paths : \E print \in Prints(path) : FacadeAddVideo(path, print)
    \/ \E all_files \in StorageListings : SearchMaterials(all_files, FacadeQuery)

SpecFacade == Init /\ [][NextFacade]_vars

(***************************************************************************)
(* OpenCutPipeline.create: search, script, the confirmation gates, render. *)
(***************************************************************************)
\* _generate_script: 'needs_rewrite': len(materials) == 0; a script has no
\* 'was_rewritten' key until the rewriter sets it (script.get gives None).
RequiredVisual == {"travel", "scenery", "adventure"}

generate_script(topic, materials) ==
    [title |-> topic, needs_rewrite |-> Len(materials) = 0,
     required_visual |-> RequiredVisual, was_rewritten |-> FALSE]

\* _adaptive_rewrite collects m.get('tags', []) over the materials; a search
\* result has no 'tags' key.
AvailableTags(materials) == {}

\* AdaptiveScript.rewrite
rewrite(original_script, available_tags) ==
    LET missing == original_script.required_visual \ available_tags
        present == original_script.required_visual \cap available_tags
    IN IF missing # {}
       THEN [original_script EXCEPT !.was_rewritten = TRUE, !.required_visual = present]
       ELSE original_script

\* What the user types at a prompt.
Responses == {"", "y", "yes", "edit", "n", "retry"}

\* ConfirmationFlow.confirm_script
confirm_script(mode, response) ==
    IF mode = "auto" THEN TRUE
    ELSE IF response \in {"", "y", "yes"} THEN TRUE
    ELSE IF response = "edit" THEN TRUE
    ELSE FALSE

\* ConfirmationFlow.confirm_rewrite
confirm_rewrite(mode, script, response) ==
    IF ~script.was_rewritten THEN TRUE
    ELSE IF mode = "auto" THEN TRUE
    ELSE IF response \in {"", "y", "yes"} THEN TRUE
    ELSE FALSE

\* output_dir / f"{config.topic.replace(' ', '_')}_final.mp4"
OutputPath(topic) == <<topic, "_final.mp4">>

Topics == {"trip"}
ConfirmModes == {"interactive", "auto"}

\* config['script']['confirmation']['mode'], given to ConfirmationFlow
FlowModes == {"interactive", "auto"}

\* The storage listings create is run on.
CreateListings == {<< >>, <<"a.mp4">>, <<"a.mp4", "b.mp4">>, <<UnindexedPath>>}

\* create, step 1: materials = self._search_materials(config.topic)
CreateSearch(all_files) ==
    /\ createCall.pc = "idle"
    /\ SearchMaterials(all_files, FacadeQuery)

\* create, step 2: _generate_script, _adaptive_rewrite when needs_rewrite, and
\* the branch on confirm_mode.  A search that raised has ended the call.
CreateScript(topic, confirm_mode, flow_mode) ==
    /\ createCall.pc = "idle"
    /\ ret.op = "search_materials" /\ ~ret.raised
    /\ LET materials == ret.result
           script == generate_script(topic, materials)
           final == IF script.needs_rewrite
                    THEN rewrite(script, AvailableTags(materials))
                    ELSE script
       IN createCall' = [pc |-> IF confirm_mode = "interactive"
                                THEN "confirm_script" ELSE "render",
                         topic |-> topic, confirm_mode |-> confirm_mode,
                         flow_mode |-> flow_mode, script |-> final, gates |-> << >>]
    /\ ret' = [op |-> "running"]
    /\ UNCHANGED <<storeVars, scanVars, semVars, writerVars, outputs>>

\* What create leaves behind when it ends.
CreateReturn(call, gates, rendered, raised, result) ==
    [op |-> "create", confirm_mode |-> call.confirm_mode,
     was_rewritten |-> call.script.was_rewritten, gates |-> gates,
     rendered |-> rendered, raised |-> raised, result |-> result]

\* _confirmation_flow, gate 1; False makes create return None.
ConfirmScript(response) ==
    /\ createCall.pc = "confirm_script"
    /\ LET answer == confirm_script(createCall.flow_mode, response)
           gates == Append(createCall.gates, [gate |-> "confirm_script", answer |-> answer])
       IN IF answer
          THEN /\ createCall' = [createCall EXCEPT
                    !.pc = IF createCall.script.was_rewritten
                           THEN "confirm_rewrite" ELSE "generate_preview",
                    !.gates = gates]
               /\ UNCHANGED ret
          ELSE /\ createCall' = NoCreate
               /\ ret' = CreateReturn(createCall, gates, FALSE, FALSE, "None")
    /\ UNCHANGED <<storeVars, scanVars, semVars, writerVars, outputs>>

\* _confirmation_flow, gate 2, entered only if script.get('was_rewritten').
ConfirmRewrite(response) ==
    /\ createCall.pc = "confirm_rewrite"
    /\ LET answer == confirm_rewrite(createCall.flow_mode, createCall.script, response)
           gates == Append(createCall.gates, [gate |-> "confirm_rewrite", answer |-> answer])
       IN IF answer
          THEN /\ createCall' = [createCall EXCEPT !.pc = "generate_preview",
                                                   !.gates = gates]
               /\ UNCHANGED ret
          ELSE /\ createCall' = NoCreate
               /\ ret' = CreateReturn(createCall, gates, FALSE, FALSE, "None")
    /\ UNCHANGED <<storeVars, scanVars, semVars, writerVars, outputs>>

\* _confirmation_flow, before gate 3: self._generate_preview(script, materials).
\* OpenCutPipeline defines no _generate_preview, so the attribute lookup raises
\* AttributeError, which nothing catches: create ends here, confirm_preview is
\* not reached.
GeneratePreview ==
    /\ createCall.pc = "generate_preview"
    /\ createCall' = NoCreate
    /\ ret' = CreateReturn(createCall, createCall.gates, FALSE, TRUE, "AttributeError")
    /\ UNCHANGED <<storeVars, scanVars, semVars, writerVars, outputs>>

\* create, steps 4 and 5: _render writes the output file, _package_result
\* returns it.
Render ==
    /\ createCall.pc = "render"
    /\ outputs' = outputs \cup {OutputPath(createCall.topic)}
    /\ createCall' = NoCreate
    /\ ret' = CreateReturn(createCall, createCall.gates, TRUE, FALSE,
                           OutputPath(createCall.topic))
    /\ UNCHANGED <<storeVars, scanVars, semVars, writerVars>>

NextCreate ==
    \/ \E all_files \in CreateListings : CreateSearch(all_files)
    \/ \E topic \in Topics, confirm_mode \in ConfirmModes, flow_mode \in FlowModes :
         CreateScript(topic, confirm_mode, flow_mode)
    \/ \E response \in Responses : ConfirmScript(response)
    \/ \E response \in Responses : ConfirmRewrite(response)
    \/ GeneratePreview
    \/ Render

SpecCreate == Init /\ [][NextCreate]_vars

(***************************************************************************)
(* VideoHasher.hamming_distance and is_similar called directly.            *)
(***************************************************************************)
\* A threshold above every distance of two 64-bit hashes.
LargeThreshold == 2 * ZFillWidth

HasherThresholds == Thresholds \cup {LargeThreshold}

\* Both are static methods without state: what a call returns does not depend
\* on the calls before it, so each is made on the initial state.
HammingDistance(hash1, hash2) ==
    /\ ret.op = "none"
    /\ ret' = [op |-> "hamming_distance", hash1 |-> hash1, hash2 |-> hash2,
               raised |-> FALSE, result |-> hamming_distance(hash1, hash2)]
    /\ UNCHANGED <<storeVars, scanVars, semVars, writerVars, createVars>>

IsSimilar(hash1, hash2, threshold) ==
    /\ ret.op = "none"
    /\ ret' = [op |-> "is_similar", hash1 |-> hash1, hash2 |-> hash2,
               threshold |-> threshold, raised |-> FALSE,
               result |-> is_similar(hash1, hash2, threshold)]
    /\ UNCHANGED <<storeVars, scanVars, semVars, writerVars, createVars>>

NextHasher ==
    \/ \E hash1 \in TestHashes, hash2 \in TestHashes : HammingDistance(hash1, hash2)
    \/ \E hash1 \in TestHashes, hash2 \in TestHashes, threshold \in HasherThresholds :
         IsSimilar(hash1, hash2, threshold)

SpecHasher == Init /\ [][NextHasher]_vars

(***************************************************************************)
(* A store that holds hashes of different lengths.                         *)
(***************************************************************************)
MixedPrints(path) == Prints(path) \cup {PS}

\* The frame hashes a caller looks for.
QueryHashes == {PA, HS15, <<0, 15>>}

SegmentThresholds == {0, SegmentThreshold, LargeThreshold}

FindSimilarSegments(phash, threshold) ==
    /\ QueryPoint
    /\ ret' = [op |-> "find_similar_segments", phash |-> phash,
               threshold |-> threshold, raised |-> FALSE,
               result |-> find_similar_segments(videos, frames, phash, threshold)]
    /\ UNCHANGED <<storeVars, scanVars, semVars, writerVars, createVars>>

NextLengths ==
    \/ \E hash1 \in {HS1, H01, H03}, hash2 \in {HS1, H01, H03} :
         HammingDistance(hash1, hash2)
    \/ \E hash1 \in {HS1, H01, H03}, hash2 \in {HS1, H01, H03},
          threshold \in HasherThresholds : IsSimilar(hash1, hash2, threshold)
    \/ \E path \in Paths : \E print \in MixedPrints(path) : AddVideo(path, print, NoFail)
    \/ \E threshold \in HasherThresholds : FindDuplicates(threshold)
    \/ \E phash \in QueryHashes, threshold \in SegmentThresholds :
         FindSimilarSegments(phash, threshold)

SpecLengths == Init /\ [][NextLengths]_vars

(***************************************************************************)
(* Every query of the two indexers, on stores and indexes that are empty   *)
(* or hold little.                                                         *)
(***************************************************************************)
GetStats ==
    /\ QueryPoint
    /\ ret' = [op |-> "get_stats", raised |-> FALSE, result |-> get_stats(videos, frames)]
    /\ UNCHANGED <<storeVars, scanVars, semVars, writerVars, createVars>>

SemGetStats ==
    /\ QueryPoint
    /\ ret' = [op |-> "sem_get_stats", raised |-> FALSE,
               result |-> sem_get_stats(vectors, metadata)]
    /\ UNCHANGED <<storeVars, scanVars, semVars, writerVars, createVars>>

NextQueries ==
    \/ \E print \in Prints("a.mp4") : \E fail \in FailPoints(Fingerprint("a.mp4", print)) :
         AddVideo("a.mp4", print, fail)
    \/ \E path \in {UnindexedPath, "a.mov"} :
         \E outcome \in WindowOutcomes(path, DefaultClipDuration) : IndexVideo(path, outcome)
    \/ \E threshold \in Thresholds : FindDuplicates(threshold)
    \/ \E phash \in QueryHashes, threshold \in SegmentThresholds :
         FindSimilarSegments(phash, threshold)
    \/ \E file_list \in FileLists, threshold \in Thresholds :
         Deduplicate(file_list, threshold)
    \/ GetStats
    \/ \E query_vec \in QueryVectors, top_k \in TopKs, min_duration \in MinDurations,
          encoder_ok \in BOOLEAN :
         Search(query_vec, top_k, min_duration, encoder_ok)
    \/ SemGetStats

SpecQueries == Init /\ [][NextQueries]_vars

(***************************************************************************)
(* SemanticIndex.index_video with several clip durations.                  *)
(***************************************************************************)
\* index_video with the clip durations a caller may pass; "repeated" tells a
\* call with the arguments and window outcomes of the call before it.
ClipDurations == {7, DefaultClipDuration}

IndexVideoWith(path, clip_duration, outcome) ==
    /\ batchPc = "idle"
    /\ Len(vectors) <= MaxIndexed
    /\ LET r == index_video(vectors, metadata, path, clip_duration, outcome)
       IN /\ vectors' = r.vectors
          /\ metadata' = r.metadata
          /\ ret' = [op |-> "index_video", video_path |-> path,
                     clip_duration |-> clip_duration, outcome |-> outcome,
                     repeated |-> /\ ret.op = "index_video"
                                  /\ ret.video_path = path
                                  /\ ret.clip_duration = clip_duration
                                  /\ ret.outcome = outcome,
                     raised |-> r.raised, result |-> r.clip_ids]
    /\ UNCHANGED <<storeVars, scanVars, writerVars, createVars, diskVars, batchVars>>

NextWindows ==
    \/ \E path \in ListPaths, clip_duration \in ClipDurations :
         \E outcome \in WindowOutcomes(path, clip_duration) :
            IndexVideoWith(path, clip_duration, outcome)
    \/ SemGetStats

SpecWindows == Init /\ [][NextWindows]_vars

(***************************************************************************)
(* VideoHasher.compute_video_fingerprint called on what a decoder reports. *)
(***************************************************************************)
\* A static method without state: each call is made on the initial state.
ComputeVideoFingerprint(video_path, fps, total_frames, readable) ==
    /\ ret.op = "none"
    /\ LET r == compute_video_fingerprint(video_path, fps, total_frames, readable,
                                          DefaultSampleInterval)
       IN ret' = [op |-> "compute_video_fingerprint", fps |-> fps,
                  total_frames |-> total_frames, readable |-> readable,
                  raised |-> r.raised, result |-> r]
    /\ UNCHANGED <<storeVars, scanVars, semVars, writerVars, createVars>>

NextFingerprint ==
    \E fps \in 0..MaxFps, total_frames \in 0..MaxFrames :
        \E readable \in [0..(total_frames - 1) -> BOOLEAN] :
            ComputeVideoFingerprint("a.mp4", fps, total_frames, readable)

SpecFingerprint == Init /\ [][NextFingerprint]_vars

(***************************************************************************)
(* FingerprintDB.find_duplicates over a store of up to four videos.        *)
(***************************************************************************)
ClusterPrints(path) ==
    CASE path = "a.mp4" -> {P00, PFF}
      [] path = "b.mp4" -> {P01, PFE}
      [] path = "a.mov" -> {P03, PFF}
      [] path = UnindexedPath -> {P01, PFE}

ClusterAddVideo(path, print) ==
    LET fp == Fingerprint(path, print)
        db == add_video(Db(videos, frames, videoSeq), fp, NoFail)
    IN /\ scanPc = "idle"
       /\ videoSeq < MaxClusterAdds
       /\ videos' = db.videos
       /\ frames' = db.frames
       /\ videoSeq' = db.seq
       /\ latest' = [latest EXCEPT ![path] = print]
       /\ ret' = [op |-> "add_video", video_path |-> path, fail |-> NoFail,
                  raised |-> FALSE, result |-> db.seq]
       /\ UNCHANGED <<scanVars, semVars, writerVars, createVars>>

NextCluster ==
    \/ \E path \in ListPaths : \E print \in ClusterPrints(path) :
         ClusterAddVideo(path, print)
    \/ \E threshold \in Thresholds : FindDuplicates(threshold)

SpecCluster == Init /\ [][NextCluster]_vars

(***************************************************************************)
(* Claims on the fingerprint store.                                        *)
(***************************************************************************)
StoredPaths(vs) == {vs[i].file_path : i \in 1..Len(vs)}

RowsOf(vs, path) == {i \in 1..Len(vs) : vs[i].file_path = path}

HashOf(vs, path) == vs[CHOOSE i \in RowsOf(vs, path) : TRUE].combined_hash

\* The frame hashes the store shows for path, as (timestamp, phash) in scan order.
FramesOf(vs, fs, path) ==
    LET mine == SelectSeq(JoinFrames(vs, fs), LAMBDA f : f.file_path = path)
    IN [k \in 1..Len(mine) |-> [timestamp |-> mine[k].timestamp, phash |-> mine[k].phash]]

\* C1: after any sequence of add_video calls the store holds exactly one video
\* record per distinct file_path, the one of the latest call for that path, so
\* adding a path again leaves get_stats().video_count as it was.
C1_OneRecordPerPath ==
    /\ \A p \in Paths :
         IF latest[p] = NoPrint
         THEN RowsOf(videos, p) = {}
         ELSE /\ Cardinality(RowsOf(videos, p)) = 1
              /\ HashOf(videos, p) = latest[p].combined_hash
    /\ get_stats(videos, frames).video_count
         = Cardinality({p \in Paths : latest[p] # NoPrint})

\* A path was added, and added again: three commits, two records.
C1_Witness ==
    /\ ret.op = "add_video" /\ ~ret.raised
    /\ videoSeq = 3
    /\ get_stats(videos, frames).video_count = 2

\* C2: an add_video call that raises (at stat, at the video INSERT or at any
\* frame INSERT) leaves nothing of the new fingerprint visible to
\* find_duplicates, find_similar_segments or get_stats, and the fingerprint
\* stored before for that path is still there with all its frame hashes.
C2_FailedAddInvisible ==
    [][(ret'.op = "add_video" /\ ret'.raised) =>
          /\ videos' = videos
          /\ \A t \in Thresholds : find_duplicates(videos', t) = find_duplicates(videos, t)
          /\ JoinFrames(videos', frames') = JoinFrames(videos, frames)
          /\ get_stats(videos', frames') = get_stats(videos, frames)
          /\ LET p == ret'.video_path
             IN latest[p] # NoPrint =>
                  /\ Cardinality(RowsOf(videos', p)) = 1
                  /\ HashOf(videos', p) = latest[p].combined_hash
                  /\ FramesOf(videos', frames', p) = latest[p].frame_hashes]_vars

\* A call for a path already stored raised at its second frame INSERT.
C2_Witness ==
    /\ ret.op = "add_video" /\ ret.raised
    /\ ret.fail.at = "frame" /\ ret.fail.k = 2
    /\ latest[ret.video_path] # NoPrint
    /\ latest[ret.video_path].frame_hashes # << >>

\* C3: find_duplicates never returns a group of fewer than 2 members, and every
\* member of a group is within threshold of the group's first member (the seed).
C3_GroupsAroundSeed ==
    ret.op = "find_duplicates" =>
        \A g \in 1..Len(ret.result) :
            LET group == ret.result[g]
            IN /\ Len(group) >= 2
               /\ \A k \in 1..Len(group) :
                    LET d == hamming_distance(HashOf(videos, group[1]),
                                              HashOf(videos, group[k]))
                    IN d # Inf /\ d <= ret.threshold

\* A group of three whose second and third members are not within threshold of
\* each other.
C3_Witness ==
    /\ ret.op = "find_duplicates"
    /\ Len(ret.result) = 1
    /\ Len(ret.result[1]) = 3
    /\ hamming_distance(HashOf(videos, ret.result[1][2]),
                        HashOf(videos, ret.result[1][3])) > ret.threshold

\* The positions of file_list that hold no non-first member of a group.
KeptPositions(file_list, groups) ==
    {i \in 1..Len(file_list) :
        ~ \E g \in 1..Len(groups) : \E k \in 2..Len(groups[g]) :
            groups[g][k] = file_list[i]}

\* The k-th smallest element of a set of positions.
NthOf(positions, k) ==
    CHOOSE i \in positions : Cardinality({j \in positions : j <= i}) = k

\* C4: deduplicate returns file_list without the non-first members of the groups
\* of find_duplicates(threshold), the rest in their original order; entries
\* with no fingerprint on record are kept.
C4_DedupRemovesNonFirst ==
    ret.op = "deduplicate" =>
        LET kept == KeptPositions(ret.file_list,
                                  find_duplicates(videos, ret.threshold))
        IN /\ Len(ret.result) = Cardinality(kept)
           /\ \A k \in 1..Len(ret.result) :
                ret.result[k] = ret.file_list[NthOf(kept, k)]
           /\ \A i \in 1..Len(ret.file_list) :
                ret.file_list[i] \notin StoredPaths(videos) => i \in kept

\* A list of a duplicate and a file without fingerprint: only the latter is left.
C4_Witness ==
    /\ ret.op = "deduplicate"
    /\ Len(ret.file_list) = 2
    /\ ret.file_list[1] \in StoredPaths(videos)
    /\ ret.file_list[2] = UnindexedPath
    /\ ret.result = <<UnindexedPath>>

\* C5: deduplicate is idempotent for a fixed store and threshold.
C5_DedupIdempotent ==
    ret.op = "deduplicate" =>
        deduplicate(videos, ret.result, ret.threshold) = ret.result

\* A call that removed a duplicate and kept the first member of its group.
C5_Witness ==
    /\ ret.op = "deduplicate"
    /\ Len(ret.file_list) = 2
    /\ Len(ret.result) = 1
    /\ ret.result[1] \in StoredPaths(videos)

(***************************************************************************)
(* Claims on scan_and_index.                                               *)
(***************************************************************************)
OkFiles(n) == {k \in 1..n : scanFiles[k].outcome = "ok"}

\* C6: progress_callback(i, total) is invoked exactly once for every enumerated
\* file, after the file has been handled, whether it succeeded or failed.
C6_ProgressOncePerFile ==
    /\ Len(progress) = scanPos
    /\ \A k \in 1..Len(progress) : progress[k] = <<k, Len(scanFiles)>>

\* C7: a failure on one file never ends the batch: every later file is still
\* handled, and the count returned is the number of files add_video stored.
C7_ScanSurvivesFailures ==
    /\ indexed = Cardinality(OkFiles(scanPos))
    /\ videoSeq = indexed
    /\ scanPc = "done" =>
         /\ scanPos = Len(scanFiles)
         /\ ret.result = Cardinality(OkFiles(Len(scanFiles)))
         /\ \A k \in OkFiles(Len(scanFiles)) : scanFiles[k].path \in StoredPaths(videos)

\* add_video raised on the first file, the second could not be decoded, the
\* third was stored and counted.
C7_Witness ==
    /\ scanPc = "done"
    /\ Len(scanFiles) = 3
    /\ scanFiles[1].outcome = "add_error"
    /\ scanFiles[2].outcome = "decode_error"
    /\ scanFiles[3].outcome = "ok"
    /\ ret.result = 1
    /\ scanFiles[3].path \in StoredPaths(videos)

(***************************************************************************)
(* Claims on SemanticIndex.search.                                         *)
(***************************************************************************)
\* The positions of self.vectors whose clip is at least min_duration long.
Qualifying(vecs, meta, min_duration) ==
    {i \in 1..Len(vecs) : DictGet(meta, vecs[i].key).duration >= min_duration}

\* The position in self.vectors of the clip a result names.
PositionOf(vecs, clip_id) == CHOOSE i \in 1..Len(vecs) : vecs[i].key = clip_id

ScoreAt(vecs, query_vec, i) == Dot(query_vec, vecs[i].val)

\* Position i ranks before position j: a higher score, or the same score and
\* an earlier place in the iteration order.
RanksBefore(vecs, query_vec, i, j) ==
    \/ ScoreAt(vecs, query_vec, i) > ScoreAt(vecs, query_vec, j)
    \/ /\ ScoreAt(vecs, query_vec, i) = ScoreAt(vecs, query_vec, j)
       /\ i < j

\* C8: search returns at most top_k results, every result has
\* duration >= min_duration, and the results are in non-increasing order of
\* similarity_score.
C8_SearchBounded ==
    (ret.op = "search" /\ ~ret.raised) =>
        /\ Len(ret.result) <= ret.top_k
        /\ \A k \in 1..Len(ret.result) : ret.result[k].duration >= ret.min_duration
        /\ \A k \in 1..(Len(ret.result) - 1) :
             ret.result[k].similarity_score >= ret.result[k + 1].similarity_score

\* A search that the limit cut short, over an index that also holds a clip
\* shorter than min_duration.
C8_Witness ==
    /\ ret.op = "search" /\ ~ret.raised
    /\ ret.top_k > 0
    /\ Len(ret.result) = ret.top_k
    /\ Cardinality(Qualifying(vectors, metadata, ret.min_duration)) > ret.top_k
    /\ Cardinality(Qualifying(vectors, metadata, ret.min_duration)) < Len(vectors)

\* C9: search returns exactly the top_k highest-scoring clips among those with
\* duration >= min_duration (all of them when fewer qualify), clips of equal
\* score in insertion order, each with its own dot product as similarity_score;
\* so the clip with the strictly highest score comes first.
C9_SearchTopK ==
    (ret.op = "search" /\ ~ret.raised) =>
        LET q == Qualifying(vectors, metadata, ret.min_duration)
            pos == [k \in 1..Len(ret.result) |->
                        PositionOf(vectors, ret.result[k].clip_id)]
            returned == {pos[k] : k \in 1..Len(ret.result)}
        IN /\ Len(ret.result) = Min(ret.top_k, Cardinality(q))
           /\ \A k \in 1..Len(ret.result) :
                /\ pos[k] \in q
                /\ ret.result[k].similarity_score
                     = ScoreAt(vectors, ret.query_vec, pos[k])
           /\ \A k, l \in 1..Len(ret.result) :
                k < l => RanksBefore(vectors, ret.query_vec, pos[k], pos[l])
           /\ \A i \in q \ returned : \A k \in 1..Len(ret.result) :
                RanksBefore(vectors, ret.query_vec, pos[k], i)

\* Two clips of equal, highest score and room for one: the one indexed first
\* is returned, the other is not.
C9_Witness ==
    /\ ret.op = "search" /\ ~ret.raised
    /\ ret.top_k = 1
    /\ Len(ret.result) = 1
    /\ \E i \in Qualifying(vectors, metadata, ret.min_duration) :
         /\ vectors[i].key # ret.result[1].clip_id
         /\ ScoreAt(vectors, ret.query_vec, i) = ret.result[1].similarity_score
         /\ i > PositionOf(vectors, ret.result[1].clip_id)

(***************************************************************************)
(* Claims on the persisted index.                                          *)
(***************************************************************************)
\* C10: constructing a SemanticIndex when either artifact is missing or corrupt
\* never raises and yields an empty index: no vectors, no metadata, and
\* get_stats().indexed_clips = 0.
C10_LoadEmptyOnDamage ==
    (ret.op = "construct"
        /\ (ret.vectors_file # "ok" \/ ret.metadata_file # "ok")) =>
        /\ ~ret.raised
        /\ vectors = << >>
        /\ metadata = << >>
        /\ sem_get_stats(vectors, metadata).indexed_clips = 0

\* What a caller sees of a search: whether it raised, and the clip_ids in order.
SearchRanking(vecs, meta, query_vec, top_k, min_duration) ==
    LET r == search(vecs, meta, query_vec, top_k, min_duration, TRUE)
    IN [raised |-> r.raised,
        clip_ids |-> [k \in 1..Len(r.results) |-> r.results[k].clip_id]]

\* C11: after batch_index has persisted an index of N clips, a SemanticIndex
\* constructed on the same path reports indexed_clips = N and, for every query
\* embedding, top_k and min_duration, search returns the same clip_ids in the
\* same order as the index that was saved.
C11_RoundTrip ==
    [][(ret.op = "batch_index" /\ ret'.op = "construct") =>
          /\ sem_get_stats(vectors', metadata').indexed_clips
               = sem_get_stats(vectors, metadata).indexed_clips
          /\ \A query_vec \in QueryVectors, top_k \in TopKs,
                min_duration \in MinDurations :
               SearchRanking(vectors', metadata', query_vec, top_k, min_duration)
                 = SearchRanking(vectors, metadata, query_vec, top_k, min_duration)]_vars

\* A reload of two persisted clips that tie for a query and whose insertion
\* order is not the order of their keys.
C11_Witness ==
    /\ ret.op = "construct"
    /\ ret.vectors_file = "ok" /\ ret.metadata_file = "ok"
    /\ Len(vectors) = 2
    /\ vectors[1].key = <<"a", 1>>
    /\ \E query_vec \in QueryVectors :
         /\ ScoreAt(vectors, query_vec, 1) = ScoreAt(vectors, query_vec, 2)
         /\ SearchRanking(vectors, metadata, query_vec, MaxTopK, TestMinDuration).clip_ids
              = <<vectors[1].key, vectors[2].key>>

\* C12: in every reachable state of a SemanticIndex the vector table and the
\* metadata table have exactly the same set of clip_id keys.
C12_SameKeys == DictKeys(vectors) = DictKeys(metadata)

\* C13: clip_id is unique within the index: clips of different source files
\* never receive the same clip_id, so an index_video call never replaces a
\* clip that belongs to another video.
C13_ClipIdUnique ==
    [][ret'.op = "index_video" =>
          \A i \in 1..Len(metadata) :
              metadata[i].val.file_path # ret'.video_path =>
                  /\ DictHas(metadata', metadata[i].key)
                  /\ DictGet(metadata', metadata[i].key) = metadata[i].val
                  /\ DictGet(vectors', metadata[i].key) = DictGet(vectors, metadata[i].key)]_vars

\* C14: concurrent writers to one persisted index lose no update: when two
\* batch_index runs on the same index path have both completed, the persisted
\* index holds the clips produced by both runs.
C14_NoLostUpdate ==
    (\A w \in Writers : wPc[w] = "done") =>
        /\ vectorsFile.status = "ok" /\ metadataFile.status = "ok"
        /\ \A w \in Writers :
             /\ wProduced[w] \subseteq DictKeys(np_load(vectorsFile.data))
             /\ wProduced[w] \subseteq DictKeys(json_load(metadataFile.data))

(***************************************************************************)
(* Claims on the retrieval facade.                                         *)
(***************************************************************************)
\* The candidates that have no clip in the index.
Unindexed(meta, unique_files) ==
    SelectSeq(unique_files,
              LAMBDA f : ~ \E i \in 1..Len(meta) : meta[i].val.file_path = f)

\* C15: in _search_materials batch_index is run if and only if indexed_clips is
\* less than the number of deduplicated candidates, and when it is run it is
\* given exactly the deduplicated candidates that have no clip in the index yet.
C15_BatchOverUnindexed ==
    [][ret'.op = "search_materials" =>
          LET unique_files == deduplicate(videos, ret'.all_files, DefaultThreshold)
          IN /\ ret'.batch_ran <=>
                   sem_get_stats(vectors, metadata).indexed_clips < Len(unique_files)
             /\ ret'.batch_ran =>
                   ret'.batch_files = Unindexed(metadata, unique_files)]_vars

(***************************************************************************)
(* Claims on VideoHasher.                                                  *)
(***************************************************************************)
\* C16: for all hashes a and b of equal length hamming_distance(a, b) =
\* hamming_distance(b, a), and hamming_distance(a, a) = 0.
C16_HammingSymmetric ==
    (ret.op = "hamming_distance" /\ Len(ret.hash1) = Len(ret.hash2)) =>
        /\ ~ret.raised
        /\ ret.result = hamming_distance(ret.hash2, ret.hash1)
        /\ ret.hash1 = ret.hash2 => ret.result = 0

\* Two different hashes of equal length, one with a leading zero digit: their
\* distance is the number of bits set in the other.
C16_Witness ==
    /\ ret.op = "hamming_distance"
    /\ ret.hash1 = <<0, 1>> /\ ret.hash2 = <<15, 1>>
    /\ ret.result = 4

\* The joined frame rows whose hash has as many digits as phash.
ComparableFrames(vs, fs, phash) ==
    SelectSeq(JoinFrames(vs, fs), LAMBDA f : Len(f.phash) = Len(phash))

\* C17: for two hashes of different lengths hamming_distance returns the
\* infinite value without raising, is_similar is false for every finite
\* threshold, find_duplicates never puts the two videos in one group, and
\* find_similar_segments never returns a frame whose hash has another length
\* than the one looked for.
C17_IncomparableLengths ==
    /\ (ret.op = "hamming_distance" /\ Len(ret.hash1) # Len(ret.hash2)) =>
          ~ret.raised /\ ret.result = Inf
    /\ (ret.op = "is_similar" /\ Len(ret.hash1) # Len(ret.hash2)) =>
          ~ret.raised /\ ret.result = FALSE
    /\ ret.op = "find_duplicates" =>
          \A g \in 1..Len(ret.result) : \A k, l \in 1..Len(ret.result[g]) :
              Len(HashOf(videos, ret.result[g][k])) = Len(HashOf(videos, ret.result[g][l]))
    /\ ret.op = "find_similar_segments" =>
          LET comparable == ComparableFrames(videos, frames, ret.phash)
          IN /\ ~ret.raised
             /\ Len(ret.result) <= Len(comparable)
             /\ \A m \in 1..Len(ret.result) : \E k \in 1..Len(comparable) :
                  /\ comparable[k].file_path = ret.result[m].file_path
                  /\ comparable[k].timestamp = ret.result[m].timestamp

\* Two stored videos whose hashes have the same value and different lengths
\* are not grouped under the largest threshold.
C17_Witness ==
    /\ ret.op = "find_duplicates" /\ ret.threshold = LargeThreshold
    /\ Len(videos) = 2
    /\ {videos[1].combined_hash, videos[2].combined_hash} = {HS1, H01}
    /\ ret.result = << >>

(***************************************************************************)
(* Claims on empty stores and indexes.                                     *)
(***************************************************************************)
\* C18: on an empty fingerprint store find_duplicates and
\* find_similar_segments return empty lists, deduplicate returns its input
\* unchanged and get_stats returns zero counts; on an empty embedding index
\* search returns an empty list, also when no text embedding can be had, and
\* get_stats returns zero counts; none of these raises.
C18_EmptyIsValid ==
    /\ (ret.op = "find_duplicates" /\ videos = << >>) => ret.result = << >>
    /\ (ret.op = "find_similar_segments" /\ videos = << >>) =>
          ~ret.raised /\ ret.result = << >>
    /\ (ret.op = "deduplicate" /\ videos = << >>) => ret.result = ret.file_list
    /\ (ret.op = "get_stats" /\ videos = << >> /\ frames = << >>) =>
          /\ ~ret.raised
          /\ ret.result.video_count = 0
          /\ ret.result.total_size = 0
          /\ ret.result.frame_samples = 0
    /\ (ret.op = "search" /\ vectors = << >>) => ~ret.raised /\ ret.result = << >>
    /\ (ret.op = "sem_get_stats" /\ vectors = << >> /\ metadata = << >>) =>
          /\ ~ret.raised
          /\ ret.result.indexed_clips = 0
          /\ ret.result.indexed_videos = 0

\* A search with a positive top_k on an empty index while the text encoder is
\* unavailable.
C18_Witness ==
    /\ ret.op = "search"
    /\ vectors = << >>
    /\ ~ret.encoder_ok
    /\ ret.top_k > 0
    /\ ret.result = << >>
    /\ ~ret.raised

\* C19: compute_video_fingerprint on a video with no decodable frame (also one
\* reported with frame count 0 and frame rate 0) does not raise: it returns a
\* fingerprint with empty frame_hashes and the digest of the empty sequence as
\* combined_hash.
C19_ZeroFramesFingerprint ==
    (ret.op = "compute_video_fingerprint"
        /\ \A idx \in 0..(ret.total_frames - 1) : ~ret.readable[idx]) =>
        /\ ~ret.raised
        /\ ret.result.frame_hashes = << >>
        /\ ret.result.combined_hash = Digest(<< >>)

\* Star clustering, row by row: the seed that collects row i is the first
\* earlier row that is itself collected by none and within threshold of row i;
\* 0 when there is none, and then row i is a seed.
StarOwner(vs, threshold) ==
    LET Owner[i \in 1..Len(vs)] ==
            LET cands == {s \in 1..(i - 1) :
                            /\ Owner[s] = 0
                            /\ HammingTable[vs[s].combined_hash,
                                            vs[i].combined_hash] # Inf
                            /\ HammingTable[vs[s].combined_hash,
                                            vs[i].combined_hash] <= threshold}
            IN IF cands = {} THEN 0
               ELSE CHOOSE s \in cands : \A t \in cands : s <= t
    IN Owner

\* The rows of the star around seed s.
StarRows(vs, threshold, s) ==
    {s} \cup {j \in 1..Len(vs) : StarOwner(vs, threshold)[j] = s}

\* The seeds whose star has more than one row.
StarSeeds(vs, threshold) ==
    {s \in 1..Len(vs) : /\ StarOwner(vs, threshold)[s] = 0
                        /\ Cardinality(StarRows(vs, threshold, s)) > 1}

RowOf(vs, path) == CHOOSE i \in RowsOf(vs, path) : TRUE

\* Three stored videos, two of them at distance 1 and the third farther than
\* the threshold from both.
NearPairAndFar(vs, threshold) ==
    /\ Len(vs) = 3
    /\ \E x, y, z \in 1..3 :
         /\ x < y /\ z \notin {x, y}
         /\ hamming_distance(vs[x].combined_hash, vs[y].combined_hash) = 1
         /\ hamming_distance(vs[x].combined_hash, vs[z].combined_hash) > threshold
         /\ hamming_distance(vs[y].combined_hash, vs[z].combined_hash) > threshold

\* C20: find_duplicates(threshold) returns exactly the star clustering of the
\* stored rows in row order: one group per seed with a star of more than one
\* row, groups in seed order, each group the paths of its star with the seed
\* first and the members in row order; for two videos at distance 1 and a third
\* far from both, with threshold 5, that is one group of the two near paths.
C20_StarClustering ==
    ret.op = "find_duplicates" =>
        LET groups == ret.result
            seeds == StarSeeds(videos, ret.threshold)
        IN /\ Len(groups) = Cardinality(seeds)
           /\ \A g \in 1..Len(groups) :
                /\ \A k \in 1..Len(groups[g]) : RowsOf(videos, groups[g][k]) # {}
                /\ RowOf(videos, groups[g][1]) \in seeds
                /\ {RowOf(videos, groups[g][k]) : k \in 1..Len(groups[g])}
                      = StarRows(videos, ret.threshold, RowOf(videos, groups[g][1]))
                /\ \A k \in 1..(Len(groups[g]) - 1) :
                      RowOf(videos, groups[g][k]) < RowOf(videos, groups[g][k + 1])
           /\ \A g \in 1..(Len(groups) - 1) :
                RowOf(videos, groups[g][1]) < RowOf(videos, groups[g + 1][1])
           /\ (ret.threshold = DefaultThreshold /\ NearPairAndFar(videos, ret.threshold)) =>
                \E x, y \in 1..3 :
                    /\ x < y
                    /\ hamming_distance(videos[x].combined_hash,
                                        videos[y].combined_hash) = 1
                    /\ groups = <<<<videos[x].file_path, videos[y].file_path>>>>

\* Four stored videos clustered into two groups, the first seeded by row 1 and
\* holding a row that comes after the second group's seed.
C20_Witness ==
    /\ ret.op = "find_duplicates"
    /\ Len(videos) = 4
    /\ Len(ret.result) = 2
    /\ RowOf(videos, ret.result[1][1]) = 1
    /\ RowOf(videos, ret.result[2][1]) = 2
    /\ RowOf(videos, ret.result[1][2]) > 2

(***************************************************************************)
(* Claims on frame hashes and re-insertion.                                *)
(***************************************************************************)
\* The frame hashes of the fingerprints now stored, video row by video row,
\* each fingerprint's frames in its own order.
RECURSIVE CurrentFrames(_, _, _)
CurrentFrames(vs, last, i) ==
    IF i > Len(vs) THEN << >>
    ELSE [k \in 1..Len(last[vs[i].file_path].frame_hashes) |->
            [file_path |-> vs[i].file_path,
             timestamp |-> last[vs[i].file_path].frame_hashes[k].timestamp,
             phash |-> last[vs[i].file_path].frame_hashes[k].phash]]
         \o CurrentFrames(vs, last, i + 1)

\* The positions of the current frames within threshold of phash.
MatchingFrames(current, phash, threshold) ==
    {k \in 1..Len(current) :
        /\ hamming_distance(phash, current[k].phash) # Inf
        /\ hamming_distance(phash, current[k].phash) <= threshold}

\* The frame rows whose video row was replaced.
OrphanFrames(vs, fs) ==
    SelectSeq(fs, LAMBDA f : \A i \in 1..Len(vs) : vs[i].id # f.video_id)

\* C21: find_similar_segments returns exactly one entry for each frame hash of
\* the fingerprints now stored that is within threshold of the query hash, none
\* for a frame hash of a replaced fingerprint, each with similarity
\* 1 - distance/64, ordered by similarity descending and, among equals, in
\* scan order.
C21_SegmentsOfCurrentFrames ==
    ret.op = "find_similar_segments" =>
        LET current == CurrentFrames(videos, latest, 1)
            matching == MatchingFrames(current, ret.phash, ret.threshold)
            result == ret.result
        IN /\ Len(result) = Cardinality(matching)
           /\ \E pos \in [1..Len(result) -> matching] :
                /\ \A m, n \in 1..Len(result) : m # n => pos[m] # pos[n]
                /\ \A m \in 1..Len(result) :
                     /\ result[m].file_path = current[pos[m]].file_path
                     /\ result[m].timestamp = current[pos[m]].timestamp
                     /\ result[m].similarity
                          = SimilarityBits - hamming_distance(ret.phash, current[pos[m]].phash)
                /\ \A m \in 1..(Len(result) - 1) :
                     \/ result[m].similarity > result[m + 1].similarity
                     \/ /\ result[m].similarity = result[m + 1].similarity
                        /\ pos[m] < pos[m + 1]

\* A query whose hash is within threshold of a frame of a replaced
\* fingerprint and of two frames now stored, the later one the more similar.
C21_Witness ==
    /\ ret.op = "find_similar_segments"
    /\ \E k \in 1..Len(OrphanFrames(videos, frames)) :
         /\ hamming_distance(ret.phash, OrphanFrames(videos, frames)[k].phash) # Inf
         /\ hamming_distance(ret.phash, OrphanFrames(videos, frames)[k].phash)
               <= ret.threshold
    /\ Len(ret.result) = 2
    /\ LET current == CurrentFrames(videos, latest, 1)
       IN /\ Len(current) = 2
          /\ ret.result[1].timestamp = current[2].timestamp
          /\ ret.result[1].file_path = current[2].file_path
          /\ ret.result[1].similarity > ret.result[2].similarity

\* C22: after any sequence of add_video calls, re-insertions of a stored
\* file_path included, get_stats().frame_samples is the number of frame hashes
\* of the fingerprints now persisted: the sum over the stored videos of the
\* length of frame_hashes of the video's latest fingerprint.
C22_FrameSamplesOfCurrent ==
    ret.op = "get_stats" =>
        ret.result.frame_samples = Len(CurrentFrames(videos, latest, 1))

(***************************************************************************)
(* Claims on batch_index and index_video.                                  *)
(***************************************************************************)
\* The sum of the clip counts of the attempts whose index_video returned.
RECURSIVE ClipsOfSucceeded(_)
ClipsOfSucceeded(attempts) ==
    IF attempts = << >> THEN 0
    ELSE ClipsOfSucceeded(SubSeq(attempts, 1, Len(attempts) - 1))
         + (IF attempts[Len(attempts)].raised THEN 0
            ELSE Len(attempts[Len(attempts)].clip_ids))

\* C23: batch_index writes the index to disk exactly once per call, after the
\* last path was attempted and never between paths, whichever paths fail; a
\* path that fails does not keep later paths from being indexed, and the total
\* returned is the sum of the clip counts of the paths that succeeded.
C23_SaveOnceAtEnd ==
    [][/\ (batchPc = "loop" /\ batchPc' = "loop") =>
            /\ <<vectorsFile', metadataFile'>> = <<vectorsFile, metadataFile>>
            /\ batchPos' = batchPos + 1
            /\ Len(batchLog') = batchPos'
            /\ batchLog'[batchPos'].video_path = batchFiles[batchPos']
       /\ (batchPc = "idle" /\ batchPc' = "loop") =>
            <<vectorsFile', metadataFile'>> = <<vectorsFile, metadataFile>>
       /\ (batchPc = "loop" /\ batchPc' = "idle") =>
            /\ ret'.op = "batch_index"
            /\ Len(ret'.attempts) = Len(ret'.video_files)
            /\ \A i \in 1..Len(ret'.video_files) :
                 ret'.attempts[i].video_path = ret'.video_files[i]
            /\ vectorsFile' = File("ok", np_save(vectors))
            /\ metadataFile' = File("ok", json_dump(metadata))
            /\ ret'.result = ClipsOfSucceeded(ret'.attempts)
      ]_vars

\* A call on two paths where index_video raised for the first and returned
\* clips for the second, whose progress callback raised.
C23_Witness ==
    /\ ret.op = "batch_index"
    /\ Len(ret.attempts) = 2
    /\ ret.attempts[1].raised
    /\ ~ret.attempts[2].raised
    /\ ret.attempts[2].callback = "raise"
    /\ ret.result > 0
    /\ vectorsFile.status = "ok"

\* The windows index_video considers: i = 0 .. floor(D / c).
WindowNumbers(path, clip_duration) == 0..(Duration(path) \div clip_duration)

WindowStart(clip_duration, i) == i * clip_duration

WindowEnd(path, clip_duration, i) ==
    IF (i + 1) * clip_duration <= Duration(path) THEN (i + 1) * clip_duration
    ELSE Duration(path)

\* The windows before the one where index_video raised, all when it returned.
WindowsReached(path, clip_duration, outcome) ==
    {i \in WindowNumbers(path, clip_duration) :
        \A j \in 0..(i - 1) :
            ~(/\ WindowEnd(path, clip_duration, j) - WindowStart(clip_duration, j) >= 1
              /\ outcome[j] = "raise")}

\* C24: for a video of duration D and clip duration c > 0, index_video
\* considers the windows [i*c, min((i+1)*c, D)) for i = 0 .. floor(D/c), stores
\* a clip only for a window at least 1 second long and at most one per window;
\* every stored clip has end_time > start_time and duration = end_time -
\* start_time >= 1, and its clip_id carries the window number; a window whose
\* frame cannot be extracted or embedded is the only one dropped.
C24_WindowsOfVideo ==
    [][(ret'.op = "index_video" /\ "clip_duration" \in DOMAIN ret') =>
        LET path == ret'.video_path
            c == ret'.clip_duration
            result == ret'.result
            stored == {i \in WindowNumbers(path, c) :
                          \E k \in 1..Len(result) : result[k] = ClipId(path, i)}
        IN /\ DOMAIN ret'.outcome = WindowNumbers(path, c)
           /\ \A k \in 1..Len(result) :
                \E i \in WindowNumbers(path, c) : result[k] = ClipId(path, i)
           /\ \A k, l \in 1..Len(result) : k # l => result[k] # result[l]
           /\ \A i \in stored :
                LET clip == DictGet(metadata', ClipId(path, i))
                IN /\ DictHas(vectors', ClipId(path, i))
                   /\ clip.file_path = path
                   /\ clip.start_time = WindowStart(c, i)
                   /\ clip.end_time = WindowEnd(path, c, i)
                   /\ clip.end_time > clip.start_time
                   /\ clip.duration = clip.end_time - clip.start_time
                   /\ clip.duration >= 1
           /\ stored = {i \in WindowsReached(path, c, ret'.outcome) :
                          /\ WindowEnd(path, c, i) - WindowStart(c, i) >= 1
                          /\ ret'.outcome[i] = "ok"}
      ]_vars

\* An 8 second video cut every 7 seconds: the first window fails, the second,
\* exactly 1 second long, is stored, and no third window exists.
C24_Witness ==
    /\ ret.op = "index_video"
    /\ "clip_duration" \in DOMAIN ret
    /\ ret.video_path = "b.mp4" /\ ret.clip_duration = 7
    /\ ret.outcome[0] = "skip"
    /\ ret.result = <<ClipId("b.mp4", 1)>>
    /\ DictGet(metadata, ClipId("b.mp4", 1)).duration = 1

\* C25: re-indexing replaces: index_video called again on the same unchanged
\* video with the same clip duration and the same windows succeeding returns
\* the same clip_ids and leaves the set of clip_ids and
\* get_stats().indexed_clips as they were after the first call.
C25_ReindexReplaces ==
    [][(ret'.op = "index_video" /\ "repeated" \in DOMAIN ret' /\ ret'.repeated) =>
        /\ ret'.result = ret.result
        /\ DictKeys(vectors') = DictKeys(vectors)
        /\ DictKeys(metadata') = DictKeys(metadata)
        /\ sem_get_stats(vectors', metadata').indexed_clips
              = sem_get_stats(vectors, metadata).indexed_clips
      ]_vars

\* A second call that returned a clip.
C25_Witness ==
    /\ ret.op = "index_video"
    /\ "repeated" \in DOMAIN ret /\ ret.repeated
    /\ ~ret.raised
    /\ ret.result # << >>
    /\ sem_get_stats(vectors, metadata).indexed_clips = Len(ret.result)

(***************************************************************************)
(* Claims on what deduplicate leaves in the caller's list.                 *)
(***************************************************************************)
\* C26: the output of deduplicate never holds two files that both have a
\* fingerprint on record, with combined hashes of equal length, within
\* threshold of each other: every fingerprinted file that survives is a seed of
\* the clustering, and no two seeds are within threshold.
C26_SurvivorsAreFarSeeds ==
    ret.op = "deduplicate" =>
        /\ \A k \in 1..Len(ret.result) :
             ret.result[k] \in StoredPaths(videos) =>
                StarOwner(videos, ret.threshold)[RowOf(videos, ret.result[k])] = 0
        /\ \A k, l \in 1..Len(ret.result) :
             (/\ ret.result[k] # ret.result[l]
              /\ ret.result[k] \in StoredPaths(videos)
              /\ ret.result[l] \in StoredPaths(videos)
              /\ Len(HashOf(videos, ret.result[k])) = Len(HashOf(videos, ret.result[l])))
             => hamming_distance(HashOf(videos, ret.result[k]),
                                 HashOf(videos, ret.result[l])) > ret.threshold

\* Two fingerprinted files survive under the default threshold while a third
\* stored video is grouped with one of them.
C26_Witness ==
    /\ ret.op = "deduplicate" /\ ret.threshold = DefaultThreshold
    /\ Len(ret.result) = 2
    /\ ret.result[1] # ret.result[2]
    /\ ret.result[1] \in StoredPaths(videos)
    /\ ret.result[2] \in StoredPaths(videos)
    /\ Len(find_duplicates(videos, ret.threshold)) = 1

\* C27: deduplicate never removes every member of a duplicate group from the
\* caller's list: each group of find_duplicates(threshold) with a member in
\* file_list still has a member in the returned list, also when the group's
\* first member is stored but is not in file_list.
C27_GroupStaysRepresented ==
    ret.op = "deduplicate" =>
        LET groups == find_duplicates(videos, ret.threshold)
            Members(g) == {groups[g][k] : k \in 1..Len(groups[g])}
            Listed(list) == {list[i] : i \in 1..Len(list)}
        IN \A g \in 1..Len(groups) :
              Members(g) \cap Listed(ret.file_list) # {} =>
                 Members(g) \cap Listed(ret.result) # {}

\* C28: re-inserting a stored video with an identical fingerprint does not
\* change what the store reports: for every threshold find_duplicates returns
\* the same groups, with the same seeds and member order, before and after,
\* and deduplicate of any file list returns the same result.
C28_ReinsertChangesNothing ==
    [][(/\ ret'.op = "add_video" /\ ~ret'.raised
        /\ ret'.video_path \in StoredPaths(videos)
        /\ latest' = latest) =>
          \A threshold \in Thresholds :
             /\ find_duplicates(videos', threshold) = find_duplicates(videos, threshold)
             /\ \A file_list \in FileLists :
                  deduplicate(videos', file_list, threshold)
                     = deduplicate(videos, file_list, threshold)
      ]_vars

(***************************************************************************)
(* Claims on the retrieval facade and the confirmation gates.              *)
(***************************************************************************)
\* The files with a clip in the index.
FilesWithClips(meta) == {meta[i].val.file_path : i \in 1..Len(meta)}

\* C29: after _search_materials has run, whatever the index held before, every
\* deduplicated candidate file with at least one indexable window has a clip
\* in the embedding index when search is executed.
C29_CandidatesIndexed ==
    ret.op = "search_materials" =>
        \A i \in 1..Len(ret.unique_files) :
            Duration(ret.unique_files[i]) >= MinWindow =>
                ret.unique_files[i] \in FilesWithClips(metadata)

\* The gates of an interactive create, in order.
GatesOf(was_rewritten) ==
    IF was_rewritten THEN <<"confirm_script", "confirm_rewrite", "confirm_preview">>
    ELSE <<"confirm_script", "confirm_preview">>

\* C30: with confirm_mode "interactive" create renders if and only if
\* confirm_script, then confirm_rewrite (consulted only for a rewritten
\* script), then confirm_preview have each returned True, in that order; a
\* rejection at a gate makes create return None with no render and no later
\* gate consulted; with confirm_mode "auto" no gate is consulted before render.
C30_GatesBeforeRender ==
    ret.op = "create" =>
        LET gates == ret.gates
            all == GatesOf(ret.was_rewritten)
            accepted == \A k \in 1..Len(gates) : gates[k].answer
        IN IF ret.confirm_mode = "interactive"
           THEN /\ Len(gates) <= Len(all)
                /\ \A k \in 1..Len(gates) : gates[k].gate = all[k]
                /\ ret.rendered <=> (Len(gates) = Len(all) /\ accepted)
                /\ \A k \in 1..Len(gates) :
                     ~gates[k].answer =>
                        /\ k = Len(gates)
                        /\ ~ret.rendered
                        /\ ret.result = "None"
                /\ accepted => Len(gates) = Len(all)
           ELSE gates = << >> /\ ret.rendered

====
